---- MODULE Spec2Model ----
(***************************************************************************)
(* A model of the NV12 demonstration programs of the repository:           *)
(*   "gbm"    nv12_gbm_egl.cpp, GBM allocate / PRIME export / EGLImage      *)
(*            import with CPU-upload fallback (lines 1-420)                 *)
(*   "viewer" nv12_to_rgb_gl.cpp, the GLES3 viewer (lines 1-253)            *)
(*   "memfd"  nv_dma_buf_test.cpp, the memfd dma-buf test                   *)
(*   "cpu"    the CPU converter, nv12_gbm_egl.cpp lines 758-840             *)
(*   "vulkan" the Vulkan scaler, nv12_gbm_egl.cpp lines 423-756             *)
(*   "fs"     one invocation of the fragment shader main()                  *)
(* Every program is a single thread; pc is its position in main.  The      *)
(* outcome of every call into the operating system, X11, EGL, GL or GBM is  *)
(* an input drawn with \E.                                                  *)
(***************************************************************************)
EXTENDS Integers, Sequences, FiniteSets, TLC

\* ---------------------------------------------------------------- bounds
\* WIDTH and HEIGHT are 640 and 480 in the source; the model keeps them even
\* and scales them down.
HalfW == 1
HalfH == 2
\* the buffer manager reports a stride in WIDTH .. WIDTH + MaxPad
MaxPad == 5
\* redraws of the render loop that are followed
MaxDraws == 3

\* X events other than a KeyPress the viewer is given while it waits
MaxEvents == 2

WIDTH == 2 * HalfW
HEIGHT == 2 * HalfH

\* ---------------------------------------------------------------- helpers
NoByte == 255 + 1

At(s, i) == s[i + 1]

Min(a, b) == IF a < b THEN a ELSE b
Max(a, b) == IF a > b THEN a ELSE b

\* C integer division truncates toward zero
CDiv(a, b) == IF a >= 0 THEN a \div b ELSE -((-a) \div b)

\* arithmetic right shift by 8 of a C int (floor division by 256)
Shr8(a) == a \div 256

IntMax == 2147483647

\* addition of two 32-bit ints with two's complement wrap-around
AddInt32(a, b) ==
    IF a >= 0 /\ b >= 0 /\ a > IntMax - b
    THEN ((a - IntMax) - 1) + ((b - IntMax) - 1)
    ELSE IF a < 0 /\ b < 0 /\ a < ((-IntMax) - 1) - b
    THEN ((a + IntMax) + 1) + ((b + IntMax) + 1)
    ELSE a + b

\* multiplication of a 32-bit int by a non-negative int, wrapping
RECURSIVE MulInt32(_, _)
MulInt32(a, b) ==
    IF b = 0 THEN 0
    ELSE IF b % 2 = 1 THEN AddInt32(a, MulInt32(AddInt32(a, a), b \div 2))
    ELSE MulInt32(AddInt32(a, a), b \div 2)

\* ---------------------------------------------------------------- files
Pats == {"white", "ramp"}

\* byte i of an NV12 frame of w x h pixels drawn with pattern p
PatByte(p, w, h, i) ==
    IF p = "white" THEN (IF i < w * h THEN 255 ELSE 128)
    ELSE (i * 37 + 11) % 256

FrameBytes(p, w, h) == [k \in 1..((w * h * 3) \div 2) |-> PatByte(p, w, h, k - 1)]

\* the generator's yPlane and uvPlane arrays before they are written
yPlane(p, w, h) == [i \in 1..(w * h) |-> PatByte(p, w, h, i - 1)]
uvPlane(p, w, h) == [i \in 1..((w * h) \div 2) |-> PatByte(p, w, h, w * h + i - 1)]

\* fwrite(buf, 1, n, fp): the file after the write
Fwrite(f, buf, n) == f \o SubSeq(buf, 1, n)

\* the file the generator leaves: the Y plane, then the UV plane
GeneratedFile(p, w, h) ==
    Fwrite(Fwrite(<<>>, yPlane(p, w, h), w * h), uvPlane(p, w, h), (w * h) \div 2)

Truncate(s, t) == SubSeq(s, 1, Len(s) - t)

\* a read that ignores the file position
Fread_FromStart(f, pos, n) == SubSeq(f, 1, Min(Len(f), n))

\* fread(buf, 1, n, f) from position pos: the bytes actually read
Fread(f, pos, n) == SubSeq(f, pos + 1, Min(Len(f), pos + n))

ResNames == {"drm_fd", "gbm", "bo", "export_fd", "dma_fd"}

VARIABLES
    outImgY, outImgUV,   \* Vulkan scaler: contents of the output images
    stgOutY, stgOutUV,   \* Vulkan scaler: the output staging buffers
    outFile,             \* Vulkan scaler: the output file written
    layout,              \* Vulkan scaler: the layout each image is in
    vkLog,               \* Vulkan scaler: the calls made, in order
    calls,           \* the calls made on shared resources, in order
    prog,            \* which program runs
    pc,              \* position in main
    exitStatus,      \* "running", the exit status ("0", "1", "-1") or the fatal signal
    file,            \* bytes of the input file
    fileExists,
    stdout,          \* messages written to stdout
    stderr,          \* messages written to stderr
    bufY, bufUV,     \* CPU frame buffers
    bufState,        \* "none", "alloc", "freed"
    drm_fd, gbm, bo, gbm_export_fd,
    stride0, stride1, offset0, offset1, plane_count, use_gbm,
    total_sz,
    dmabuf,          \* bytes of the exported buffer, by byte address
    mapState,        \* "none", "mapped", "unmapped"
    oob,             \* a memcpy of the fill wrote outside the mapping
    relCount,        \* resource -> number of times it was released
    xdisp, dpy, eglInit, cfg, surf, ctx, current,
    p_eglCreateImage, p_eglDestroyImage, p_glEGLImageTargetTexture2DOES,
    have_dma_ext,
    img,             \* "NO_IMAGE" or "image"
    imgState,        \* the EGLImage object: "none", "live", "destroyed"
    createImageCalls,
    attr,                \* the attribute list handed to eglCreateImage
    imported,
    nullCall,        \* a call through a null function pointer was made
    glprog,          \* the linked program, FALSE when none
    activeTexture,   \* the active texture unit
    binding,         \* texture unit -> bound texture name (0: none)
    textures,        \* texture name -> texture object
    texY, texUV,
    draws,           \* glDrawArrays calls issued
    running,
    failed,          \* the setup calls that reported failure
    argc, width, height,      \* CPU converter: command line
    nv12_size,                \* CPU converter, memfd test: bytes of one frame
    nv12_data, rgb_data,      \* CPU converter: input and output buffers
    oobRead,                  \* NV12ToRGB read outside nv12_data
    inW, inH, outW, outH,     \* Vulkan scaler: command line
    inSize, ySize, uvSize,    \* Vulkan scaler: byte counts
    texel,                    \* fragment shader: the sampled <<Y, U, V>> bytes
    fragColor                 \* fragment shader: the 8-bit <<R, G, B>> written

ioVars == <<file, fileExists, stdout, stderr>>
bufVars == <<bufY, bufUV, bufState>>
gbmVars == <<drm_fd, gbm, bo, gbm_export_fd, stride0, stride1, offset0, offset1,
             plane_count, use_gbm, total_sz, dmabuf, mapState, oob, relCount>>
eglVars == <<xdisp, dpy, eglInit, cfg, surf, ctx, current>>
procVars == <<p_eglCreateImage, p_eglDestroyImage, p_glEGLImageTargetTexture2DOES,
              have_dma_ext>>
imgVars == <<img, imgState, createImageCalls, attr, imported, nullCall>>
glVars == <<glprog, activeTexture, binding, textures, texY, texUV, draws, running>>

cpuVars == <<argc, width, height, nv12_data, rgb_data, oobRead>>
vkVars == <<inW, inH, outW, outH, inSize, ySize, uvSize, outImgY, outImgUV, stgOutY,
           stgOutUV, outFile, layout, vkLog>>
fsVars == <<texel, fragColor>>

vars == <<calls, prog, pc, exitStatus, ioVars, bufVars, gbmVars, eglVars, procVars,
          imgVars, glVars, failed, cpuVars, nv12_size, vkVars, fsVars>>

\* ---------------------------------------------------------------- output
Say(msg) == stdout' = Append(stdout, msg) /\ UNCHANGED stderr
Err(msg) == stderr' = Append(stderr, msg) /\ UNCHANGED stdout
Quiet == UNCHANGED <<stdout, stderr>>

\* record calls on the shared resources
Call(cs) == calls' = calls \o cs
NoCall == UNCHANGED calls

\* return from main with status s
Exit(s) == pc' = "exited" /\ exitStatus' = s

Goto(l) == pc' = l /\ UNCHANGED exitStatus

\* ---------------------------------------------------------------- GL
\* the four images of the Vulkan scaler
Images == {"imgY", "imgUV", "outY", "outUV"}

\* the attributes of an NV12 dma-buf import: size, and per plane the
\* descriptor, offset and pitch
ImageAttr(w, h, fd, off0, pitch0, off1, pitch1) ==
    [width |-> w, height |-> h, fd0 |-> fd, offset0 |-> off0, pitch0 |-> pitch0,
     fd1 |-> fd, offset1 |-> off1, pitch1 |-> pitch1]

\* no attribute list built yet
NoAttr == ImageAttr(0, 0, -1, 0, 0, 0, 0)

NoTexture == [fmt |-> "none", w |-> 0, h |-> 0, data |-> <<>>]

TexImage(fmt, w, h, data) == [fmt |-> fmt, w |-> w, h |-> h, data |-> data]

\* ---------------------------------------------------------------- Init
InitCommon ==
    /\ pc = "start"
    /\ calls = <<>>
    /\ exitStatus = "running"
    /\ stdout = <<>>
    /\ stderr = <<>>
    /\ bufY = <<>>
    /\ bufUV = <<>>
    /\ bufState = "none"
    /\ drm_fd = -1
    /\ gbm = FALSE
    /\ bo = FALSE
    /\ gbm_export_fd = -1
    /\ stride0 = 0
    /\ stride1 = 0
    /\ offset0 = 0
    /\ offset1 = 0
    /\ plane_count = 0
    /\ use_gbm = 0
    /\ total_sz = 0
    /\ dmabuf = <<>>
    /\ mapState = "none"
    /\ oob = FALSE
    /\ relCount = [r \in ResNames |-> 0]
    /\ xdisp = FALSE
    /\ dpy = FALSE
    /\ eglInit = FALSE
    /\ cfg = FALSE
    /\ surf = FALSE
    /\ ctx = FALSE
    /\ current = FALSE
    /\ p_eglCreateImage = FALSE
    /\ p_eglDestroyImage = FALSE
    /\ p_glEGLImageTargetTexture2DOES = FALSE
    /\ have_dma_ext = 0
    /\ img = "NO_IMAGE"
    /\ imgState = "none"
    /\ createImageCalls = 0
    /\ attr = NoAttr
    /\ imported = 0
    /\ nullCall = FALSE
    /\ glprog = FALSE
    /\ activeTexture = 0
    /\ binding = [u \in {0, 1} |-> 0]
    /\ textures = <<>>
    /\ texY = 0
    /\ texUV = 0
    /\ draws = 0
    /\ running = 0
    /\ failed = {}
    /\ nv12_size = 0
    /\ nv12_data = <<>>
    /\ rgb_data = <<>>
    /\ oobRead = FALSE
    /\ inSize = 0
    /\ ySize = 0
    /\ uvSize = 0
    /\ outImgY = <<>>
    /\ outImgUV = <<>>
    /\ stgOutY = <<>>
    /\ stgOutUV = <<>>
    /\ outFile = <<>>
    /\ layout = [i \in Images |-> "none"]
    /\ vkLog = <<>>
    /\ fragColor = <<>>

\* the variables of the programs that are not running
IdleCpu == argc = 0 /\ width = 0 /\ height = 0
IdleVk == inW = 0 /\ inH = 0 /\ outW = 0 /\ outH = 0
IdleFs == texel = <<>>

\* the input file frame_nv12.raw: absent, complete, or one byte short
InitFrameFile ==
    /\ fileExists \in BOOLEAN
    /\ \E p \in Pats, t \in {0, 1} :
          file = IF fileExists THEN Truncate(FrameBytes(p, WIDTH, HEIGHT), t) ELSE <<>>

InitGbm ==
    prog = "gbm" /\ InitCommon /\ InitFrameFile /\ IdleCpu /\ IdleVk /\ IdleFs


\* ------------------------------------------------------- GBM/EGL program
\* strides gbm_bo_get_stride may report for a WIDTH-wide NV12 buffer
Strides == WIDTH..(WIDTH + MaxPad)

y_size == WIDTH * HEIGHT
uv_size == (WIDTH * HEIGHT) \div 2

\* 1. read test NV12 file
GbmReadFile ==
    /\ prog = "gbm" /\ pc = "start"
    /\ IF ~fileExists
       THEN /\ Err("Failed open") /\ Exit("1")
            /\ UNCHANGED bufVars
       ELSE \E mallocOk \in BOOLEAN :
            IF ~mallocOk
            THEN /\ Err("alloc failed") /\ Exit("1")
                 /\ UNCHANGED bufVars
            ELSE LET gotY == Fread(file, 0, y_size)
                     gotUV == Fread(file, Len(gotY), uv_size)
                 IN  IF Len(gotY) # y_size \/ Len(gotUV) # uv_size
                     THEN /\ Err("read nv12 failed or wrong file size") /\ Exit("1")
                          /\ bufState' = "alloc"
                          /\ bufY' = gotY
                          /\ bufUV' = IF Len(gotY) # y_size THEN <<>> ELSE gotUV
                     ELSE /\ bufState' = "alloc"
                          /\ bufY' = gotY
                          /\ bufUV' = gotUV
                          /\ Quiet /\ Goto("open_drm")
    /\ failed' = IF ~fileExists THEN failed \cup {"fopen"}
                 ELSE IF bufState' # "none" /\ pc' = "exited" THEN failed \cup {"fread"}
                 ELSE failed
    /\ Call(IF bufState' # "none" THEN <<"malloc", "fread">> ELSE <<>>)
    /\ UNCHANGED <<prog, file, fileExists, cpuVars, nv12_size, vkVars, fsVars, gbmVars, eglVars, procVars, imgVars, glVars>>

\* 2. open DRM render node
GbmOpenDrm ==
    /\ prog = "gbm" /\ pc = "open_drm"
    /\ Call(<<"open">>)
    /\ \E ok \in BOOLEAN :
          IF ok
          THEN /\ drm_fd' = 3 /\ Quiet /\ Goto("gbm_create_device")
          ELSE /\ drm_fd' = -1
               /\ Err("open /dev/dri/renderD128")
               /\ Goto("xopen")
    /\ UNCHANGED failed
    /\ UNCHANGED <<prog, file, fileExists, cpuVars, nv12_size, vkVars, fsVars, bufVars, gbm, bo, gbm_export_fd, stride0,
                   stride1, offset0, offset1, plane_count, use_gbm, total_sz, dmabuf,
                   mapState, oob, relCount, eglVars, procVars, imgVars, glVars>>

GbmCreateDevice ==
    /\ prog = "gbm" /\ pc = "gbm_create_device"
    /\ Call(<<"gbm_create_device">>)
    /\ drm_fd >= 0
    /\ \E ok \in BOOLEAN :
          IF ok
          THEN /\ gbm' = TRUE /\ Quiet /\ Goto("gbm_bo_create")
          ELSE /\ gbm' = FALSE
               /\ Err("gbm_create_device failed")
               /\ Goto("xopen")
    /\ UNCHANGED failed
    /\ UNCHANGED <<prog, file, fileExists, cpuVars, nv12_size, vkVars, fsVars, bufVars, drm_fd, bo, gbm_export_fd, stride0,
                   stride1, offset0, offset1, plane_count, use_gbm, total_sz, dmabuf,
                   mapState, oob, relCount, eglVars, procVars, imgVars, glVars>>

GbmBoCreate ==
    /\ prog = "gbm" /\ pc = "gbm_bo_create"
    /\ Call(<<"gbm_bo_create">>)
    /\ \E ok \in BOOLEAN :
          IF ok
          THEN /\ bo' = TRUE /\ Quiet /\ Goto("export")
          ELSE /\ bo' = FALSE
               /\ Err("gbm_bo_create failed")
               /\ Goto("xopen")
    /\ UNCHANGED failed
    /\ UNCHANGED <<prog, file, fileExists, cpuVars, nv12_size, vkVars, fsVars, bufVars, drm_fd, gbm, gbm_export_fd, stride0,
                   stride1, offset0, offset1, plane_count, use_gbm, total_sz, dmabuf,
                   mapState, oob, relCount, eglVars, procVars, imgVars, glVars>>

\* gbm_bo_get_handle + drmPrimeHandleToFD (GBM_BO_GET_FD is no macro of gbm.h)
GbmExport ==
    /\ prog = "gbm" /\ pc = "export"
    /\ Call(<<"export">>)
    /\ \E handleOk \in BOOLEAN, ret \in {0, -1} :
          IF handleOk /\ ret = 0
          THEN /\ gbm_export_fd' = 4 /\ Quiet /\ Goto("layout")
          ELSE /\ gbm_export_fd' = -1
               /\ Err("gbm export fd failed")
               /\ Goto("xopen")
    /\ UNCHANGED failed
    /\ UNCHANGED <<prog, file, fileExists, cpuVars, nv12_size, vkVars, fsVars, bufVars, drm_fd, gbm, bo, stride0,
                   stride1, offset0, offset1, plane_count, use_gbm, total_sz, dmabuf,
                   mapState, oob, relCount, eglVars, procVars, imgVars, glVars>>

\* the plane layout the program assumes (the #else branches: gbm.h declares
\* gbm_bo_get_plane_count, gbm_bo_get_stride_for_plane and gbm_bo_get_offset as
\* functions, so the #ifdef tests are false)
PlaneOffset1 == WIDTH * HEIGHT

TotalSz(off1, s1) == off1 + s1 * (HEIGHT \div 2)

\* plane layout and mmap of the exported descriptor
GbmLayoutMmap ==
    /\ prog = "gbm" /\ pc = "layout"
    /\ Call(<<"mmap">>)
    /\ gbm_export_fd >= 0
    /\ \E s \in Strides, mmapOk \in BOOLEAN :
          /\ plane_count' = 2
          /\ stride0' = s
          /\ stride1' = s
          /\ offset0' = 0
          /\ offset1' = PlaneOffset1
          /\ total_sz' = TotalSz(PlaneOffset1, s)
          /\ IF mmapOk
             THEN /\ use_gbm' = 1
                  /\ mapState' = "mapped"
                  /\ dmabuf' = [a \in 0..(TotalSz(PlaneOffset1, s) - 1) |-> NoByte]
                  /\ stdout' = Append(stdout, "GBM bo created")
                  /\ UNCHANGED stderr
                  /\ Goto("fill")
             ELSE /\ use_gbm' = 0
                  /\ UNCHANGED <<mapState, dmabuf>>
                  /\ stdout' = Append(stdout, "GBM bo created")
                  /\ stderr' = stderr \o <<"mmap gbm_export_fd",
                                            "Can't mmap exported gbm fd; falling back to CPU upload">>
                  /\ Goto("xopen")
    /\ UNCHANGED failed
    /\ UNCHANGED <<prog, file, fileExists, cpuVars, nv12_size, vkVars, fsVars, bufVars, drm_fd, gbm, bo, gbm_export_fd,
                   oob, relCount, eglVars, procVars, imgVars, glVars>>

\* rows memcpy's of rowlen bytes: row r of src (rowlen bytes apart) goes to
\* address off + r*stride; later rows overwrite earlier ones
RECURSIVE MemcpyRows(_, _, _, _, _, _)
MemcpyRows(mem, off, stride, src, rows, rowlen) ==
    IF rows = 0 THEN mem
    ELSE LET prev == MemcpyRows(mem, off, stride, src, rows - 1, rowlen)
             r == rows - 1
         IN  [a \in DOMAIN prev |->
                 IF a >= off + r * stride /\ a < off + r * stride + rowlen
                 THEN At(src, r * rowlen + (a - (off + r * stride)))
                 ELSE prev[a]]

\* the highest address + 1 written by the row copies
CopyEnd(off, stride, rows, rowlen) == off + (rows - 1) * stride + rowlen

\* the two copy loops of the CPU fill, Y rows first, then UV rows
FillPlanes(mem) ==
    MemcpyRows(MemcpyRows(mem, offset0, stride0, bufY, HEIGHT, WIDTH),
               offset1, stride1, bufUV, HEIGHT \div 2, WIDTH)

\* CPU fill, msync, munmap
GbmFill ==
    /\ prog = "gbm" /\ pc = "fill"
    /\ Call(<<"memcpy", "munmap">>)
    /\ mapState = "mapped"
    /\ dmabuf' = FillPlanes(dmabuf)
    /\ oob' = (\/ CopyEnd(offset0, stride0, HEIGHT, WIDTH) > total_sz
               \/ CopyEnd(offset1, stride1, HEIGHT \div 2, WIDTH) > total_sz)
    /\ mapState' = "unmapped"
    /\ Say("Wrote NV12 into exported gbm dma-buf")
    \* a write outside the mapping is undefined: the run may fault or go on
    /\ \/ Goto("xopen")
       \/ /\ oob' /\ pc' = "exited" /\ exitStatus' = "SIGSEGV"
    /\ UNCHANGED failed
    /\ UNCHANGED <<prog, file, fileExists, cpuVars, nv12_size, vkVars, fsVars, bufVars, drm_fd, gbm, bo, gbm_export_fd,
                   stride0, stride1, offset0, offset1, plane_count, use_gbm, total_sz,
                   relCount, eglVars, procVars, imgVars, glVars>>

\* 3. X11 + EGL + GL context
GbmXOpenDisplay ==
    /\ prog = "gbm" /\ pc = "xopen"
    /\ NoCall
    /\ \E ok \in BOOLEAN :
          IF ok
          THEN /\ xdisp' = TRUE /\ Quiet /\ Goto("egl_get_display")
          ELSE /\ xdisp' = FALSE /\ Err("XOpenDisplay failed") /\ Exit("1")
    /\ failed' = IF xdisp' THEN failed ELSE failed \cup {"XOpenDisplay"}
    /\ UNCHANGED <<prog, file, fileExists, cpuVars, nv12_size, vkVars, fsVars, bufVars, gbmVars, dpy, eglInit, cfg, surf,
                   ctx, current, procVars, imgVars, glVars>>

GbmEglGetDisplay ==
    /\ prog = "gbm" /\ pc = "egl_get_display"
    /\ NoCall
    /\ \E ok \in BOOLEAN :
          IF ok
          THEN /\ dpy' = TRUE /\ Quiet /\ Goto("egl_initialize")
          ELSE /\ dpy' = FALSE /\ Err("eglGetDisplay failed") /\ Exit("1")
    /\ failed' = IF dpy' THEN failed ELSE failed \cup {"eglGetDisplay"}
    /\ UNCHANGED <<prog, file, fileExists, cpuVars, nv12_size, vkVars, fsVars, bufVars, gbmVars, xdisp, eglInit, cfg, surf,
                   ctx, current, procVars, imgVars, glVars>>

GbmEglInitialize ==
    /\ prog = "gbm" /\ pc = "egl_initialize"
    /\ NoCall
    /\ \E ok \in BOOLEAN :
          IF ok
          THEN /\ eglInit' = TRUE /\ Quiet /\ Goto("egl_choose_config")
          ELSE /\ eglInit' = FALSE /\ Err("eglInitialize failed") /\ Exit("1")
    /\ failed' = IF eglInit' THEN failed ELSE failed \cup {"eglInitialize"}
    /\ UNCHANGED <<prog, file, fileExists, cpuVars, nv12_size, vkVars, fsVars, bufVars, gbmVars, xdisp, dpy, cfg, surf,
                   ctx, current, procVars, imgVars, glVars>>

GbmChooseConfig ==
    /\ prog = "gbm" /\ pc = "egl_choose_config"
    /\ NoCall
    /\ \E ok \in BOOLEAN, ncfg \in {0, 1} :
          IF ok /\ ncfg # 0
          THEN /\ cfg' = TRUE /\ Quiet /\ Goto("egl_create_surface")
          ELSE /\ cfg' = FALSE /\ Err("eglChooseConfig failed") /\ Exit("1")
    /\ failed' = IF cfg' THEN failed ELSE failed \cup {"eglChooseConfig"}
    /\ UNCHANGED <<prog, file, fileExists, cpuVars, nv12_size, vkVars, fsVars, bufVars, gbmVars, xdisp, dpy, eglInit, surf,
                   ctx, current, procVars, imgVars, glVars>>

\* eglCreateWindowSurface: the result is not tested
GbmCreateSurface ==
    /\ prog = "gbm" /\ pc = "egl_create_surface"
    /\ NoCall
    /\ \E ok \in BOOLEAN : surf' = ok
    /\ Quiet /\ Goto("egl_create_context")
    /\ failed' = IF surf' THEN failed ELSE failed \cup {"eglCreateWindowSurface"}
    /\ UNCHANGED <<prog, file, fileExists, cpuVars, nv12_size, vkVars, fsVars, bufVars, gbmVars, xdisp, dpy, eglInit, cfg,
                   ctx, current, procVars, imgVars, glVars>>

GbmCreateContext ==
    /\ prog = "gbm" /\ pc = "egl_create_context"
    /\ NoCall
    /\ \E ok \in BOOLEAN :
          IF ok
          THEN /\ ctx' = TRUE /\ Quiet /\ Goto("egl_make_current")
          ELSE /\ ctx' = FALSE /\ Err("eglCreateContext failed") /\ Exit("1")
    /\ failed' = IF ctx' THEN failed ELSE failed \cup {"eglCreateContext"}
    /\ UNCHANGED <<prog, file, fileExists, cpuVars, nv12_size, vkVars, fsVars, bufVars, gbmVars, xdisp, dpy, eglInit, cfg,
                   surf, current, procVars, imgVars, glVars>>

\* eglMakeCurrent; with EGL_NO_SURFACE it succeeds where the display supports
\* surfaceless contexts
GbmMakeCurrent ==
    /\ prog = "gbm" /\ pc = "egl_make_current"
    /\ NoCall
    /\ \E ok \in BOOLEAN :
          IF ok
          THEN /\ current' = TRUE /\ Quiet /\ Goto("load_procs")
          ELSE /\ current' = FALSE /\ Err("eglMakeCurrent failed") /\ Exit("1")
    /\ failed' = IF current' THEN failed ELSE failed \cup {"eglMakeCurrent"}
    /\ UNCHANGED <<prog, file, fileExists, cpuVars, nv12_size, vkVars, fsVars, bufVars, gbmVars, xdisp, dpy, eglInit, cfg,
                   surf, ctx, procVars, imgVars, glVars>>

\* load extension entrypoints: three independent eglGetProcAddress lookups
GbmLoadProcs ==
    /\ prog = "gbm" /\ pc = "load_procs"
    /\ NoCall
    /\ \E c \in BOOLEAN, d \in BOOLEAN, t \in BOOLEAN :
          /\ p_eglCreateImage' = c
          /\ p_eglDestroyImage' = d
          /\ p_glEGLImageTargetTexture2DOES' = t
          /\ IF ~t THEN Err("glEGLImageTargetTexture2DOES not available") ELSE Quiet
    /\ Goto("probe")
    /\ UNCHANGED failed
    /\ UNCHANGED <<prog, file, fileExists, cpuVars, nv12_size, vkVars, fsVars, bufVars, gbmVars, eglVars, have_dma_ext,
                   imgVars, glVars>>

\* what eglQueryString(dpy, EGL_EXTENSIONS) may return: NULL, or a list of names
ExtStrings ==
    { [null |-> TRUE, names |-> {}],
      [null |-> FALSE, names |-> {}],
      [null |-> FALSE, names |-> {"EGL_KHR_image_base"}],
      [null |-> FALSE, names |-> {"EGL_KHR_image_base", "EGL_EXT_image_dma_buf_import"}],
      [null |-> FALSE, names |-> {"EGL_EXT_image_dma_buf_import",
                                  "EGL_EXT_image_dma_buf_import_modifiers"}] }

\* the extension names that contain name as a substring
Containing(name) ==
    IF name = "EGL_EXT_image_dma_buf_import"
    THEN {"EGL_EXT_image_dma_buf_import", "EGL_EXT_image_dma_buf_import_modifiers"}
    ELSE {name}

egl_has_ext(s, name) ==
    IF s.null THEN 0
    ELSE IF s.names \cap Containing(name) # {} THEN 1 ELSE 0

GbmProbe ==
    /\ prog = "gbm" /\ pc = "probe"
    /\ NoCall
    /\ \E s \in ExtStrings :
          /\ have_dma_ext' = egl_has_ext(s, "EGL_EXT_image_dma_buf_import")
          /\ IF egl_has_ext(s, "EGL_EXT_image_dma_buf_import") = 0
             THEN Err("EGL_EXT_image_dma_buf_import NOT available -> will fallback to CPU GL upload")
             ELSE Say("EGL_EXT_image_dma_buf_import available")
    /\ Goto("import")
    /\ UNCHANGED failed
    /\ UNCHANGED <<prog, file, fileExists, cpuVars, nv12_size, vkVars, fsVars, bufVars, gbmVars, eglVars, p_eglCreateImage,
                   p_eglDestroyImage, p_glEGLImageTargetTexture2DOES, imgVars, glVars>>

\* the import attempted whether or not the buffer was exported and filled
ImportGate_IgnoringGbm ==
    /\ have_dma_ext # 0
    /\ p_eglCreateImage
    /\ p_glEGLImageTargetTexture2DOES

\* the import attempted whatever the probe said
ImportGate_IgnoringProbe ==
    /\ use_gbm # 0
    /\ p_eglCreateImage
    /\ p_glEGLImageTargetTexture2DOES

\* the condition under which the import is attempted
ImportGate ==
    /\ use_gbm # 0
    /\ have_dma_ext # 0
    /\ p_eglCreateImage
    /\ p_glEGLImageTargetTexture2DOES

\* 4. create EGLImage from the GBM-exported fd
GbmImport ==
    /\ prog = "gbm" /\ pc = "import"
    /\ Call(IF ImportGate THEN <<"eglCreateImage">> ELSE <<>>)
    /\ IF ImportGate
       THEN /\ createImageCalls' = createImageCalls + 1
            /\ attr' = ImageAttr(WIDTH, HEIGHT, gbm_export_fd, offset0, stride0,
                               offset1, stride1)
            /\ \E ok \in BOOLEAN :
                  IF ok
                  THEN /\ img' = "image" /\ imgState' = "live"
                       /\ Quiet /\ Goto("bind")
                  ELSE /\ img' = "NO_IMAGE" /\ UNCHANGED imgState
                       /\ Err("eglCreateImage(dma_buf) failed")
                       /\ Goto("create_program")
       ELSE /\ UNCHANGED <<img, imgState, createImageCalls, attr>>
            /\ Quiet /\ Goto("create_program")
    /\ UNCHANGED failed
    /\ UNCHANGED <<prog, file, fileExists, cpuVars, nv12_size, vkVars, fsVars, bufVars, gbmVars, eglVars, procVars,
                   imported, nullCall, glVars>>

\* bind the image to a new texture; on a GL error destroy it and fall back
GbmBind ==
    /\ prog = "gbm" /\ pc = "bind"
    /\ textures' = Append(textures, TexImage("EGLIMAGE", WIDTH, HEIGHT, <<>>))
    /\ binding' = [binding EXCEPT ![activeTexture] = Len(textures) + 1]
    /\ \E gerr \in {"GL_NO_ERROR", "GL_INVALID_OPERATION"} :
          IF gerr # "GL_NO_ERROR"
          THEN /\ Err("glEGLImageTargetTexture2DOES failed")
               /\ imported' = 0
               /\ IF p_eglDestroyImage
                  THEN /\ imgState' = "destroyed"
                       /\ img' = "NO_IMAGE"
                       /\ UNCHANGED nullCall
                       /\ Goto("create_program")
                  ELSE \* p_eglDestroyImage is NULL: the call is undefined
                       /\ nullCall' = TRUE
                       /\ UNCHANGED imgState
                       /\ \/ /\ img' = img
                             /\ pc' = "exited" /\ exitStatus' = "SIGSEGV"
                          \/ /\ img' = "NO_IMAGE"
                             /\ Goto("create_program")
          ELSE /\ Say("Imported EGLImage from GBM-exported dma-buf and bound to texture")
               /\ imported' = 1
               /\ UNCHANGED <<img, imgState, nullCall>>
               /\ Goto("create_program")
    /\ UNCHANGED failed
    /\ Call(<<"glEGLImageTargetTexture2DOES">> \o
            (IF imgState' = "destroyed" THEN <<"eglDestroyImage">> ELSE <<>>))
    /\ UNCHANGED <<prog, file, fileExists, cpuVars, nv12_size, vkVars, fsVars, bufVars, gbmVars, eglVars, procVars,
                   createImageCalls, attr, glprog, activeTexture, texY, texUV, draws, running>>

\* create shader program, sampler units, vertex data
GbmCreateProgram ==
    /\ prog = "gbm" /\ pc = "create_program"
    /\ NoCall
    /\ \E ok \in BOOLEAN :
          IF ok
          THEN /\ glprog' = TRUE /\ Quiet /\ Goto("upload")
          ELSE /\ glprog' = FALSE /\ Err("create_program failed") /\ Exit("1")
    /\ UNCHANGED failed
    /\ UNCHANGED <<prog, file, fileExists, cpuVars, nv12_size, vkVars, fsVars, bufVars, gbmVars, eglVars, procVars, imgVars,
                   activeTexture, binding, textures, texY, texUV, draws, running>>

\* an upload decision that ignores the import
UploadNeeded_Always == TRUE

\* the upload decision: if (!imported)
UploadNeeded == imported = 0

\* fallback: two textures from bufY / bufUV; imported: reuse the bound texture
GbmUpload ==
    /\ prog = "gbm" /\ pc = "upload"
    /\ Call(IF UploadNeeded THEN <<"glTexImage2D">> ELSE <<>>)
    /\ IF UploadNeeded
       THEN /\ textures' = textures \o
                 <<TexImage("GL_LUMINANCE", WIDTH, HEIGHT, bufY),
                   TexImage("GL_LUMINANCE_ALPHA", WIDTH \div 2, HEIGHT \div 2, bufUV)>>
            /\ texY' = Len(textures) + 1
            /\ texUV' = Len(textures) + 2
            /\ binding' = [binding EXCEPT ![0] = Len(textures) + 1,
                                          ![1] = Len(textures) + 2]
            /\ activeTexture' = 1
            /\ Say("Fallback: uploaded Y/UV to GL textures")
       ELSE /\ texY' = binding[activeTexture]
            /\ texUV' = binding[activeTexture]
            /\ UNCHANGED <<textures, binding, activeTexture>>
            /\ Quiet
    /\ Goto("free")
    /\ UNCHANGED failed
    /\ UNCHANGED <<prog, file, fileExists, cpuVars, nv12_size, vkVars, fsVars, bufVars, gbmVars, eglVars, procVars, imgVars,
                   glprog, draws, running>>

\* a run that goes on to the draw without freeing the buffers
GbmFree_Skipped ==
    /\ prog = "gbm" /\ pc = "free"
    /\ NoCall
    /\ Quiet /\ Goto("draw")
    /\ UNCHANGED failed
    /\ UNCHANGED <<prog, file, fileExists, cpuVars, nv12_size, vkVars, fsVars, bufVars, gbmVars, eglVars, procVars, imgVars, glVars>>

\* free cpu buffers
GbmFree ==
    /\ prog = "gbm" /\ pc = "free"
    /\ Call(<<"free">>)
    /\ bufState' = "freed"
    /\ bufY' = <<>> /\ bufUV' = <<>>
    /\ Quiet /\ Goto("draw")
    /\ UNCHANGED failed
    /\ UNCHANGED <<prog, file, fileExists, cpuVars, nv12_size, vkVars, fsVars, gbmVars, eglVars, procVars, imgVars, glVars>>

\* initial render + readback once
GbmFirstDraw ==
    /\ prog = "gbm" /\ pc = "draw"
    /\ Call(<<"glDrawArrays">>)
    /\ draws' = draws + 1
    /\ running' = 1
    /\ \E foutOk \in BOOLEAN : IF foutOk THEN Say("Wrote output.rgb") ELSE Quiet
    /\ Goto("loop")
    /\ UNCHANGED failed
    /\ UNCHANGED <<prog, file, fileExists, cpuVars, nv12_size, vkVars, fsVars, bufVars, gbmVars, eglVars, procVars, imgVars,
                   glprog, activeTexture, binding, textures, texY, texUV>>

\* the X events one pass of the inner loop may find pending
EventBatches ==
    { <<>>, <<"Expose">>, <<"ClientMessage:other">>, <<"ClientMessage:WM_DELETE_WINDOW">>,
      <<"KeyPress:q">>, <<"KeyPress:Escape">>, <<"KeyPress:a">>,
      <<"Expose", "KeyPress:q">> }

\* KeyPress events, by the key pressed
KeyPressEvents == {"KeyPress:q", "KeyPress:Escape", "KeyPress:a"}

\* a test that takes every event for a KeyPress
IsKeyPress_AnyEvent(ev) == TRUE

\* ev.type == KeyPress
IsKeyPress(ev) == ev \in KeyPressEvents

\* whether a batch of events clears `running`
EndsLoop(evs) ==
    \E i \in 1..Len(evs) : evs[i] = "ClientMessage:WM_DELETE_WINDOW" \/ IsKeyPress(evs[i])

\* one pass of the render loop: redraw, then drain the pending X events
GbmLoop ==
    /\ prog = "gbm" /\ pc = "loop"
    /\ running # 0
    /\ draws < MaxDraws
    /\ draws' = draws + 1
    /\ \E evs \in EventBatches :
          /\ Call(<<"glDrawArrays">> \o evs)
          /\ IF EndsLoop(evs)
             THEN running' = 0 /\ Goto("cleanup")
             ELSE running' = 1 /\ Goto("loop")
    /\ Quiet
    /\ UNCHANGED failed
    /\ UNCHANGED <<prog, file, fileExists, cpuVars, nv12_size, vkVars, fsVars, bufVars, gbmVars, eglVars, procVars, imgVars,
                   glprog, activeTexture, binding, textures, texY, texUV>>

\* cleanup
GbmCleanup ==
    /\ prog = "gbm" /\ pc = "cleanup"
    /\ Call((IF img # "NO_IMAGE" /\ p_eglDestroyImage THEN <<"eglDestroyImage">> ELSE <<>>) \o
            (IF use_gbm # 0 /\ gbm /\ bo THEN <<"gbm_bo_destroy", "gbm_device_destroy">> ELSE <<>>) \o
            (IF use_gbm # 0 /\ gbm_export_fd >= 0 THEN <<"close(gbm_export_fd)">> ELSE <<>>) \o
            (IF use_gbm # 0 /\ drm_fd >= 0 THEN <<"close(drm_fd)">> ELSE <<>>))
    /\ IF img # "NO_IMAGE" /\ p_eglDestroyImage
       THEN imgState' = "destroyed"
       ELSE UNCHANGED imgState
    /\ relCount' =
          [r \in ResNames |->
              relCount[r] +
              (IF use_gbm = 0 THEN 0
               ELSE IF r \in {"bo", "gbm"} THEN (IF gbm /\ bo THEN 1 ELSE 0)
               ELSE IF r = "export_fd" THEN (IF gbm_export_fd >= 0 THEN 1 ELSE 0)
               ELSE IF r = "drm_fd" THEN (IF drm_fd >= 0 THEN 1 ELSE 0)
               ELSE 0)]
    /\ current' = FALSE /\ ctx' = FALSE /\ surf' = FALSE
    /\ eglInit' = FALSE /\ xdisp' = FALSE
    /\ Say("Done.")
    /\ Exit("0")
    /\ UNCHANGED failed
    /\ UNCHANGED <<prog, file, fileExists, cpuVars, nv12_size, vkVars, fsVars, bufVars, drm_fd, gbm, bo, gbm_export_fd,
                   stride0, stride1, offset0, offset1, plane_count, use_gbm, total_sz,
                   dmabuf, mapState, oob, dpy, cfg, procVars, img, createImageCalls, attr,
                   imported, nullCall, glVars>>

GbmNext ==
    \/ GbmReadFile \/ GbmOpenDrm \/ GbmCreateDevice \/ GbmBoCreate \/ GbmExport
    \/ GbmLayoutMmap \/ GbmFill
    \/ GbmXOpenDisplay \/ GbmEglGetDisplay \/ GbmEglInitialize \/ GbmChooseConfig
    \/ GbmCreateSurface \/ GbmCreateContext \/ GbmMakeCurrent
    \/ GbmLoadProcs \/ GbmProbe \/ GbmImport \/ GbmBind \/ GbmCreateProgram
    \/ GbmUpload \/ GbmFree \/ GbmFirstDraw \/ GbmLoop \/ GbmCleanup

\* --------------------------------------------------------- GLES3 viewer
ViewerKeep == <<prog, file, fileExists, cpuVars, nv12_size, vkVars, fsVars, gbmVars,
               procVars, imgVars>>

InitViewer ==
    prog = "viewer" /\ InitCommon /\ InitFrameFile /\ IdleCpu /\ IdleVk /\ IdleFs

\* 1. X11 display and window
ViewerXOpenDisplay ==
    /\ prog = "viewer" /\ pc = "start"
    /\ NoCall
    /\ \E ok \in BOOLEAN :
          IF ok
          THEN /\ xdisp' = TRUE /\ Quiet /\ Goto("egl_get_display")
          ELSE /\ xdisp' = FALSE /\ Say("Cannot open X display") /\ Exit("-1")
    /\ failed' = IF xdisp' THEN failed ELSE failed \cup {"XOpenDisplay"}
    /\ UNCHANGED <<ViewerKeep, bufVars, dpy, eglInit, cfg, surf, ctx, current, glVars>>

\* 2. eglGetDisplay
ViewerEglGetDisplay ==
    /\ prog = "viewer" /\ pc = "egl_get_display"
    /\ NoCall
    /\ \E ok \in BOOLEAN :
          IF ok
          THEN /\ dpy' = TRUE /\ Quiet /\ Goto("egl_initialize")
          ELSE /\ dpy' = FALSE /\ Say("eglGetDisplay failed") /\ Exit("-1")
    /\ failed' = IF dpy' THEN failed ELSE failed \cup {"eglGetDisplay"}
    /\ UNCHANGED <<ViewerKeep, bufVars, xdisp, eglInit, cfg, surf, ctx, current, glVars>>

ViewerEglInitialize ==
    /\ prog = "viewer" /\ pc = "egl_initialize"
    /\ NoCall
    /\ \E ok \in BOOLEAN :
          IF ok
          THEN /\ eglInit' = TRUE /\ Quiet /\ Goto("egl_choose_config")
          ELSE /\ eglInit' = FALSE /\ Say("eglInitialize failed") /\ Exit("-1")
    /\ failed' = IF eglInit' THEN failed ELSE failed \cup {"eglInitialize"}
    /\ UNCHANGED <<ViewerKeep, bufVars, xdisp, dpy, cfg, surf, ctx, current, glVars>>

\* 3. eglChooseConfig
ViewerChooseConfig ==
    /\ prog = "viewer" /\ pc = "egl_choose_config"
    /\ NoCall
    /\ \E ok \in BOOLEAN, numConfigs \in {0, 1} :
          IF ok /\ numConfigs # 0
          THEN /\ cfg' = TRUE /\ Quiet /\ Goto("egl_create_surface")
          ELSE /\ cfg' = FALSE /\ Say("eglChooseConfig failed") /\ Exit("-1")
    /\ failed' = IF cfg' THEN failed ELSE failed \cup {"eglChooseConfig"}
    /\ UNCHANGED <<ViewerKeep, bufVars, xdisp, dpy, eglInit, surf, ctx, current, glVars>>

\* 4. eglCreateWindowSurface
ViewerCreateSurface ==
    /\ prog = "viewer" /\ pc = "egl_create_surface"
    /\ NoCall
    /\ \E ok \in BOOLEAN :
          IF ok
          THEN /\ surf' = TRUE /\ Quiet /\ Goto("egl_create_context")
          ELSE /\ surf' = FALSE /\ Say("eglCreateWindowSurface failed") /\ Exit("-1")
    /\ failed' = IF surf' THEN failed ELSE failed \cup {"eglCreateWindowSurface"}
    /\ UNCHANGED <<ViewerKeep, bufVars, xdisp, dpy, eglInit, cfg, ctx, current, glVars>>

\* 5. eglCreateContext
ViewerCreateContext ==
    /\ prog = "viewer" /\ pc = "egl_create_context"
    /\ NoCall
    /\ \E ok \in BOOLEAN :
          IF ok
          THEN /\ ctx' = TRUE /\ Quiet /\ Goto("egl_make_current")
          ELSE /\ ctx' = FALSE /\ Say("eglCreateContext failed") /\ Exit("-1")
    /\ failed' = IF ctx' THEN failed ELSE failed \cup {"eglCreateContext"}
    /\ UNCHANGED <<ViewerKeep, bufVars, xdisp, dpy, eglInit, cfg, surf, current, glVars>>

ViewerMakeCurrent ==
    /\ prog = "viewer" /\ pc = "egl_make_current"
    /\ NoCall
    /\ \E ok \in BOOLEAN :
          IF ok
          THEN /\ current' = TRUE /\ Quiet /\ Goto("read")
          ELSE /\ current' = FALSE /\ Say("eglMakeCurrent failed") /\ Exit("-1")
    /\ failed' = IF current' THEN failed ELSE failed \cup {"eglMakeCurrent"}
    /\ UNCHANGED <<ViewerKeep, bufVars, xdisp, dpy, eglInit, cfg, surf, ctx, glVars>>

\* 6. read the NV12 file; the malloc results are not tested, so a failed
\* malloc makes fread write through a null pointer
ViewerReadFile ==
    /\ prog = "viewer" /\ pc = "read"
    /\ IF ~fileExists
       THEN /\ Say("Failed to open test_nv12.yuv") /\ Exit("-1")
            /\ UNCHANGED bufVars
       ELSE \E mallocOk \in BOOLEAN :
            IF ~mallocOk
            THEN /\ Quiet /\ pc' = "exited" /\ exitStatus' = "SIGSEGV"
                 /\ UNCHANGED bufVars
            ELSE LET readY == Fread(file, 0, WIDTH * HEIGHT)
                     readUV == Fread(file, Len(readY), (WIDTH * HEIGHT) \div 2)
                 IN  IF Len(readY) # WIDTH * HEIGHT \/ Len(readUV) # (WIDTH * HEIGHT) \div 2
                     THEN /\ Say("Failed to read enough NV12 data") /\ Exit("-1")
                          /\ bufState' = "freed"
                          /\ bufY' = <<>> /\ bufUV' = <<>>
                     ELSE /\ bufState' = "alloc"
                          /\ bufY' = readY
                          /\ bufUV' = readUV
                          /\ Quiet /\ Goto("create_program")
    /\ failed' = IF ~fileExists THEN failed \cup {"fopen"}
                 ELSE IF bufState' # "none" /\ pc' = "exited" THEN failed \cup {"fread"}
                 ELSE failed
    /\ Call(IF bufState' = "alloc" THEN <<"malloc", "fread">>
            ELSE IF bufState' = "freed" THEN <<"malloc", "fread", "free">>
            ELSE <<>>)
    /\ UNCHANGED <<ViewerKeep, eglVars, glVars>>

\* 7. shader program and sampler units
ViewerCreateProgram ==
    /\ prog = "viewer" /\ pc = "create_program"
    /\ NoCall
    /\ \E ok \in BOOLEAN :
          IF ok
          THEN /\ glprog' = TRUE /\ Quiet /\ Goto("upload")
          ELSE /\ glprog' = FALSE /\ Say("Shader compile failed") /\ Exit("-1")
    /\ UNCHANGED failed
    /\ UNCHANGED <<ViewerKeep, bufVars, eglVars, activeTexture, binding, textures, texY,
                   texUV, draws, running>>

\* 8. two textures, Y and UV, then free the CPU buffers
ViewerUpload ==
    /\ prog = "viewer" /\ pc = "upload"
    /\ Call(<<"glTexImage2D", "free">>)
    /\ textures' = textures \o
          <<TexImage("GL_R8", WIDTH, HEIGHT, bufY),
            TexImage("GL_RG8", WIDTH \div 2, HEIGHT \div 2, bufUV)>>
    /\ texY' = Len(textures) + 1
    /\ texUV' = Len(textures) + 2
    /\ binding' = [binding EXCEPT ![0] = Len(textures) + 1, ![1] = Len(textures) + 2]
    /\ activeTexture' = 1
    /\ bufState' = "freed"
    /\ bufY' = <<>> /\ bufUV' = <<>>
    /\ Quiet /\ Goto("draw")
    /\ UNCHANGED failed
    /\ UNCHANGED <<ViewerKeep, eglVars, glprog, draws, running>>

\* 9, 10. vertex data, render once
ViewerDraw ==
    /\ prog = "viewer" /\ pc = "draw"
    /\ Call(<<"glDrawArrays", "eglSwapBuffers">>)
    /\ draws' = draws + 1
    /\ running' = 1
    /\ Quiet /\ Goto("wait")
    /\ UNCHANGED failed
    /\ UNCHANGED <<ViewerKeep, bufVars, eglVars, glprog, activeTexture, binding, textures,
                   texY, texUV>>

\* the events XNextEvent may return to the viewer
ViewerEvents == {"Expose", "MotionNotify", "KeyPress:q", "KeyPress:a"}

\* the events taken from the queue so far
EventsSeen == {i \in 1..Len(calls) : calls[i] \in ViewerEvents}

\* XNextEvent blocks for one event; a KeyPress sets quit
ViewerEvent ==
    /\ prog = "viewer" /\ pc = "wait"
    /\ \E ev \in ViewerEvents :
          /\ ev \in KeyPressEvents \/ Cardinality(EventsSeen) < MaxEvents
          /\ Call(<<ev>>)
          /\ IF IsKeyPress(ev)
             THEN running' = 0 /\ Goto("cleanup")
             ELSE running' = 1 /\ Goto("wait")
    /\ Quiet
    /\ UNCHANGED failed
    /\ UNCHANGED <<ViewerKeep, bufVars, eglVars, glprog, activeTexture, binding, textures,
                   texY, texUV, draws>>

\* the release calls of the cleanup, in order
ViewerReleases ==
    <<"glDeleteTextures(texY)", "glDeleteTextures(texUV)", "glDeleteProgram",
      "glDeleteBuffers(vbo)", "glDeleteVertexArrays(vao)", "eglDestroyContext",
      "eglDestroySurface", "eglTerminate", "XDestroyWindow", "XCloseDisplay">>

\* cleanup: textures, program, buffers, EGL objects, window
ViewerCleanup ==
    /\ prog = "viewer" /\ pc = "cleanup"
    /\ Call(ViewerReleases)
    /\ textures' = [t \in DOMAIN textures |->
                       IF t \in {texY, texUV} THEN NoTexture ELSE textures[t]]
    /\ binding' = [u \in DOMAIN binding |->
                       IF binding[u] \in {texY, texUV} THEN 0 ELSE binding[u]]
    /\ glprog' = FALSE
    /\ ctx' = FALSE /\ surf' = FALSE /\ current' = FALSE
    /\ eglInit' = FALSE /\ xdisp' = FALSE
    /\ Quiet /\ Exit("0")
    /\ UNCHANGED failed
    /\ UNCHANGED <<ViewerKeep, bufVars, dpy, cfg, activeTexture, texY, texUV, draws, running>>

ViewerNext ==
    \/ ViewerXOpenDisplay \/ ViewerEglGetDisplay \/ ViewerEglInitialize
    \/ ViewerChooseConfig \/ ViewerCreateSurface \/ ViewerCreateContext
    \/ ViewerMakeCurrent \/ ViewerReadFile \/ ViewerCreateProgram \/ ViewerUpload
    \/ ViewerDraw \/ ViewerEvent \/ ViewerCleanup

\* ------------------------------------------------------ memfd dma-buf test
MemfdKeep == <<prog, file, fileExists, cpuVars, vkVars, fsVars, bufVars>>

InitMemfd ==
    /\ prog = "memfd" /\ InitCommon /\ IdleCpu /\ IdleVk /\ IdleFs
    /\ fileExists = FALSE /\ file = <<>>

\* 1. EGL + GLES2 environment; no result is tested.  A call on an object that
\* was not obtained fails.
MemfdEglGetDisplay ==
    /\ prog = "memfd" /\ pc = "start"
    /\ NoCall
    /\ \E ok \in BOOLEAN : dpy' = ok
    /\ Quiet /\ Goto("egl_initialize")
    /\ failed' = IF dpy' THEN failed ELSE failed \cup {"eglGetDisplay"}
    /\ UNCHANGED <<MemfdKeep, gbmVars, procVars, imgVars, glVars, xdisp, eglInit, cfg,
                   surf, ctx, current, nv12_size>>

MemfdEglInitialize ==
    /\ prog = "memfd" /\ pc = "egl_initialize"
    /\ NoCall
    /\ \E ok \in BOOLEAN : (ok => dpy) /\ eglInit' = ok
    /\ Quiet /\ Goto("egl_choose_config")
    /\ failed' = IF eglInit' THEN failed ELSE failed \cup {"eglInitialize"}
    /\ UNCHANGED <<MemfdKeep, gbmVars, procVars, imgVars, glVars, xdisp, dpy, cfg,
                   surf, ctx, current, nv12_size>>

MemfdChooseConfig ==
    /\ prog = "memfd" /\ pc = "egl_choose_config"
    /\ NoCall
    /\ \E ok \in BOOLEAN : (ok => eglInit) /\ cfg' = ok
    /\ Quiet /\ Goto("egl_create_surface")
    /\ failed' = IF cfg' THEN failed ELSE failed \cup {"eglChooseConfig"}
    /\ UNCHANGED <<MemfdKeep, gbmVars, procVars, imgVars, glVars, xdisp, dpy, eglInit,
                   surf, ctx, current, nv12_size>>

MemfdCreateSurface ==
    /\ prog = "memfd" /\ pc = "egl_create_surface"
    /\ NoCall
    /\ \E ok \in BOOLEAN : (ok => cfg) /\ surf' = ok
    /\ Quiet /\ Goto("egl_create_context")
    /\ failed' = IF surf' THEN failed ELSE failed \cup {"eglCreatePbufferSurface"}
    /\ UNCHANGED <<MemfdKeep, gbmVars, procVars, imgVars, glVars, xdisp, dpy, eglInit,
                   cfg, ctx, current, nv12_size>>

MemfdCreateContext ==
    /\ prog = "memfd" /\ pc = "egl_create_context"
    /\ NoCall
    /\ \E ok \in BOOLEAN : (ok => cfg) /\ ctx' = ok
    /\ Quiet /\ Goto("egl_make_current")
    /\ failed' = IF ctx' THEN failed ELSE failed \cup {"eglCreateContext"}
    /\ UNCHANGED <<MemfdKeep, gbmVars, procVars, imgVars, glVars, xdisp, dpy, eglInit,
                   cfg, surf, current, nv12_size>>

MemfdMakeCurrent ==
    /\ prog = "memfd" /\ pc = "egl_make_current"
    /\ NoCall
    /\ \E ok \in BOOLEAN : (ok => ctx) /\ current' = ok
    /\ Say("EGL/GLES2 initialized.") /\ Goto("create_buf")
    /\ failed' = IF current' THEN failed ELSE failed \cup {"eglMakeCurrent"}
    /\ UNCHANGED <<MemfdKeep, gbmVars, procVars, imgVars, glVars, xdisp, dpy, eglInit,
                   cfg, surf, ctx, nv12_size>>

\* 2. memfd_create + ftruncate, mmap; neither result is tested
MemfdCreateBuf ==
    /\ prog = "memfd" /\ pc = "create_buf"
    /\ Call(<<"memfd_create", "mmap">>)
    /\ nv12_size' = (WIDTH * HEIGHT * 3) \div 2
    /\ total_sz' = (WIDTH * HEIGHT * 3) \div 2
    /\ \E fdOk \in BOOLEAN, mmapOk \in BOOLEAN :
          /\ mmapOk => fdOk
          /\ gbm_export_fd' = IF fdOk THEN 3 ELSE -1
          /\ IF mmapOk
             THEN /\ mapState' = "mapped"
                  /\ dmabuf' = [a \in 0..(((WIDTH * HEIGHT * 3) \div 2) - 1) |-> 0]
             ELSE /\ mapState' = "failed"
                  /\ UNCHANGED dmabuf
    /\ Quiet /\ Goto("fill")
    /\ UNCHANGED failed
    /\ UNCHANGED <<MemfdKeep, drm_fd, gbm, bo, stride0, stride1, offset0, offset1,
                   plane_count, use_gbm, oob, relCount, eglVars, procVars, imgVars, glVars>>

\* the byte fill_nv12 stores at address a of a w x h frame
FillNv12Byte(w, h, a) ==
    IF a < w * h
    THEN (IF (((a % w) \div 32) + ((a \div w) \div 32)) % 2 # 0 THEN 200 ELSE 50)
    ELSE (IF (a - w * h) % 2 = 0 THEN 90 ELSE 240)

\* fill_nv12: h rows of w luma bytes, then h/2 rows of w/2 (U, V) pairs
fill_nv12(mem, w, h) ==
    [a \in DOMAIN mem |->
        IF a < w * h
        THEN FillNv12Byte(w, h, a)
        ELSE IF /\ (a - w * h) \div w < h \div 2
                /\ ((a - w * h) % w) \div 2 < w \div 2
        THEN FillNv12Byte(w, h, a)
        ELSE mem[a]]

\* fill through the mapping, munmap.  With MAP_FAILED the stores are undefined.
MemfdFill ==
    /\ prog = "memfd" /\ pc = "fill"
    /\ Call(<<"memcpy", "munmap">>)
    /\ IF mapState = "mapped"
       THEN /\ dmabuf' = fill_nv12(dmabuf, WIDTH, HEIGHT)
            /\ mapState' = "unmapped"
            /\ UNCHANGED oob
            /\ Say("Fake NV12 dma-buf created.") /\ Goto("create_image")
       ELSE /\ oob' = TRUE
            /\ UNCHANGED <<dmabuf, mapState>>
            /\ \/ Quiet /\ pc' = "exited" /\ exitStatus' = "SIGSEGV"
               \/ Say("Fake NV12 dma-buf created.") /\ Goto("create_image")
    /\ UNCHANGED failed
    /\ UNCHANGED <<MemfdKeep, drm_fd, gbm, bo, gbm_export_fd, stride0, stride1, offset0,
                   offset1, plane_count, use_gbm, total_sz, relCount, eglVars, procVars,
                   imgVars, glVars, nv12_size>>

\* 3. eglCreateImage from the descriptor; EGL_NO_IMAGE_KHR ends the program
MemfdCreateImage ==
    /\ prog = "memfd" /\ pc = "create_image"
    /\ Call(<<"eglCreateImage">>)
    /\ createImageCalls' = createImageCalls + 1
    /\ attr' = ImageAttr(WIDTH, HEIGHT, gbm_export_fd, 0, WIDTH, WIDTH * HEIGHT, WIDTH)
    /\ stride0' = WIDTH /\ stride1' = WIDTH
    /\ offset0' = 0 /\ offset1' = WIDTH * HEIGHT
    /\ \E ok \in BOOLEAN :
          /\ ok => eglInit /\ gbm_export_fd >= 0
          /\ IF ok
             THEN /\ img' = "image" /\ imgState' = "live"
                  /\ Say("EGLImage created.") /\ Goto("bind")
             ELSE /\ img' = "NO_IMAGE" /\ UNCHANGED imgState
                  /\ Say("eglCreateImage failed.") /\ Exit("-1")
    /\ UNCHANGED failed
    /\ UNCHANGED <<MemfdKeep, drm_fd, gbm, bo, gbm_export_fd, plane_count, use_gbm,
                   total_sz, dmabuf, mapState, oob, relCount, eglVars, procVars,
                   imported, nullCall, glVars, nv12_size>>

\* 4. bind as external texture; the eglGetProcAddress result is not tested.
\* GL calls made without a current context have no effect.
MemfdBind ==
    /\ prog = "memfd" /\ pc = "bind"
    /\ Call(<<"glEGLImageTargetTexture2DOES">>)
    /\ \E t \in BOOLEAN :
          /\ p_glEGLImageTargetTexture2DOES' = t
          /\ IF current
             THEN /\ textures' = Append(textures,
                        IF t THEN TexImage("EGLIMAGE", WIDTH, HEIGHT, <<>>) ELSE NoTexture)
                  /\ binding' = [binding EXCEPT ![activeTexture] = Len(textures) + 1]
             ELSE UNCHANGED <<textures, binding>>
          /\ imported' = IF t /\ current THEN 1 ELSE 0
          /\ IF t
             THEN /\ UNCHANGED nullCall
                  /\ Say("EGLImage bound to external texture.") /\ Goto("draw")
             ELSE /\ nullCall' = TRUE
                  /\ \/ Quiet /\ pc' = "exited" /\ exitStatus' = "SIGSEGV"
                     \/ Say("EGLImage bound to external texture.") /\ Goto("draw")
    /\ UNCHANGED failed
    /\ UNCHANGED <<MemfdKeep, gbmVars, eglVars, p_eglCreateImage, p_eglDestroyImage,
                   have_dma_ext, img, imgState, createImageCalls, attr, glprog, activeTexture,
                   texY, texUV, draws, running, nv12_size>>

\* 5. shaders (results not tested), draw, glFinish
MemfdDraw ==
    /\ prog = "memfd" /\ pc = "draw"
    /\ NoCall
    /\ \E ok \in BOOLEAN : (ok => current) /\ glprog' = ok
    /\ draws' = draws + 1
    /\ Say("Rendered.") /\ Goto("close")
    /\ UNCHANGED failed
    /\ UNCHANGED <<MemfdKeep, gbmVars, eglVars, procVars, imgVars, activeTexture, binding,
                   textures, texY, texUV, running, nv12_size>>

MemfdClose ==
    /\ prog = "memfd" /\ pc = "close"
    /\ Call(<<"close(dma_fd)">>)
    /\ relCount' = [relCount EXCEPT !["dma_fd"] = @ + 1]
    /\ Quiet /\ Exit("0")
    /\ UNCHANGED failed
    /\ UNCHANGED <<MemfdKeep, drm_fd, gbm, bo, gbm_export_fd, stride0, stride1, offset0,
                   offset1, plane_count, use_gbm, total_sz, dmabuf, mapState, oob,
                   eglVars, procVars, imgVars, glVars, nv12_size>>

MemfdNext ==
    \/ MemfdEglGetDisplay \/ MemfdEglInitialize \/ MemfdChooseConfig
    \/ MemfdCreateSurface \/ MemfdCreateContext \/ MemfdMakeCurrent
    \/ MemfdCreateBuf \/ MemfdFill \/ MemfdCreateImage \/ MemfdBind \/ MemfdDraw
    \/ MemfdClose

\* ----------------------------------------------------------- command line
DigitChars == <<"0", "1", "2", "3", "4", "5", "6", "7", "8", "9">>

IsDigit(ch) == \E d \in 1..10 : DigitChars[d] = ch

DigitValue(ch) == (CHOOSE d \in 1..10 : DigitChars[d] = ch) - 1

\* the decimal string of n >= 0
RECURSIVE Digits(_)
Digits(n) ==
    IF n < 10 THEN <<DigitChars[n + 1]>>
    ELSE Append(Digits(n \div 10), DigitChars[(n % 10) + 1])

\* the value of the leading digits of s, continuing from acc
RECURSIVE AtoiDigits(_, _)
AtoiDigits(s, acc) ==
    IF s = <<>> \/ ~IsDigit(Head(s)) THEN acc
    ELSE AtoiDigits(Tail(s), acc * 10 + DigitValue(Head(s)))

\* atoi: an optional sign, then the leading digits; 0 when there are none
atoi(s) ==
    IF s # <<>> /\ Head(s) = "-" THEN -AtoiDigits(Tail(s), 0)
    ELSE AtoiDigits(s, 0)

\* the largest small dimension given on a command line
MaxDim == 4

\* a dimension whose square times 3 does not fit a 32-bit int
BigDim == 128 * 256

EvenDims == {d \in 2..MaxDim : d % 2 = 0}

\* argument strings for a width or a height
DimArgs == {Digits(n) : n \in 0..MaxDim} \cup {<<"-", "2">>, <<"x">>}

\* the input file of the programs that take the frame size as arguments
InitSizedFile ==
    /\ fileExists \in BOOLEAN
    /\ \E p \in Pats, fw \in EvenDims, fh \in EvenDims, t \in {0, 1} :
          file = IF fileExists THEN Truncate(FrameBytes(p, fw, fh), t) ELSE <<>>

\* ---------------------------------------------------------- CPU converter
CpuKeep == <<calls, prog, file, fileExists, bufVars, gbmVars, eglVars, procVars, imgVars,
             glVars, failed, vkVars, fsVars>>

\* argc, and argv[2], argv[3] as the strings width and height are parsed from
InitCpu ==
    /\ prog = "cpu" /\ InitCommon /\ InitSizedFile /\ IdleVk /\ IdleFs
    /\ argc \in {2, 4}
    /\ width \in DimArgs \cup {Digits(BigDim)}
    /\ height \in DimArgs \cup {Digits(BigDim)}

\* usage check, atoi of width and height
CpuArgs ==
    /\ prog = "cpu" /\ pc = "start"
    /\ IF argc # 4
       THEN /\ Say("Usage") /\ Exit("-1")
            /\ UNCHANGED <<width, height>>
       ELSE /\ width' = atoi(width)
            /\ height' = atoi(height)
            /\ Quiet /\ Goto("size")
    /\ UNCHANGED <<CpuKeep, argc, nv12_size, nv12_data, rgb_data, oobRead>>

\* a * b in int arithmetic, wrapping
MulInt(a, b) == IF b < 0 THEN MulInt32(-a, -b) ELSE MulInt32(a, b)

\* whether width * height * 3 leaves the range of int
Overflows3(w, h) == w * h > IntMax \div 3 \/ w * h < -(IntMax \div 3)

\* width * height * 3 / 2 as the int expression evaluates it; signed overflow
\* is undefined, the values a build may produce are the wrapped one and the
\* one of wider arithmetic
Nv12SizeValues(w, h) ==
    IF Overflows3(w, h)
    THEN {CDiv(MulInt(MulInt(w, h), 3), 2), w * h + CDiv(w * h, 2)}
    ELSE {CDiv(w * h * 3, 2)}

\* nv12_size and the allocation of nv12_data; a negative int converts to a
\* size_t no vector can have
CpuSize ==
    /\ prog = "cpu" /\ pc = "size"
    /\ \E n \in Nv12SizeValues(width, height) :
          /\ nv12_size' = n
          /\ IF n < 0
             THEN Quiet /\ pc' = "exited" /\ exitStatus' = "SIGABRT"
             ELSE Quiet /\ Goto("read")
    /\ UNCHANGED <<CpuKeep, argc, width, height, nv12_data, rgb_data, oobRead>>

\* open and read nv12_size bytes
CpuRead ==
    /\ prog = "cpu" /\ pc = "read"
    /\ IF ~fileExists
       THEN /\ Err("Failed to open input file") /\ Exit("-1")
            /\ UNCHANGED nv12_data
       ELSE IF Len(file) < nv12_size
       THEN /\ Err("Failed to read full NV12 data") /\ Exit("-1")
            /\ UNCHANGED nv12_data
       ELSE /\ nv12_data' = SubSeq(file, 1, nv12_size)
            /\ Quiet /\ Goto("convert")
    /\ UNCHANGED <<CpuKeep, argc, width, height, nv12_size, rgb_data, oobRead>>

\* a conversion that stores the value unclamped
Clamp8_Unclamped(x) == x

\* std::min(std::max(x, 0), 255)
Clamp8(x) == Min(Max(x, 0), 255)

\* the BT.601 integer conversion of one pixel: <<R, G, B>>
PixelRGB(Y, Ub, Vb) ==
    LET C == Y - 16
        D == Ub - 128
        E == Vb - 128
    IN  << Clamp8(Shr8(298 * C + 409 * E + 128)),
           Clamp8(Shr8(298 * C - 100 * D - 208 * E + 128)),
           Clamp8(Shr8(298 * C + 516 * D + 128)) >>

\* byte i of buf; outside the buffer the read is undefined and yields junk
ReadByte(buf, i, junk) == IF i >= 0 /\ i < Len(buf) THEN At(buf, i) ELSE junk

\* an index that moves on with every pixel of the row
UvIndex_PerPixel(w, i, j) == (j \div 2) * w + i

\* the UV index NV12ToRGB uses for pixel (i, j)
UvIndex(w, i, j) == (j \div 2) * w + (i - (i % 2))

\* NV12ToRGB: rgb_data after the call
NV12ToRGB(data, w, h, junk) ==
    IF w <= 0 \/ h <= 0 THEN [k \in 1..Max(w * h * 3, 0) |-> 0]
    ELSE [k \in 1..(w * h * 3) |->
            LET y_index == (k - 1) \div 3
                i == y_index % w
                j == y_index \div w
                uv_index == UvIndex(w, i, j)
            IN  PixelRGB(ReadByte(data, y_index, junk),
                         ReadByte(data, w * h + uv_index, junk),
                         ReadByte(data, w * h + uv_index + 1, junk))[((k - 1) % 3) + 1]]

\* the highest index NV12ToRGB reads, -1 when it reads nothing
MaxReadIndex(w, h) ==
    IF w <= 0 \/ h <= 0 THEN -1
    ELSE w * h + UvIndex(w, w - 1, h - 1) + 1

CpuConvert ==
    /\ prog = "cpu" /\ pc = "convert"
    /\ oobRead' = (MaxReadIndex(width, height) >= Len(nv12_data))
    /\ \E junk \in {0, 255} :
          /\ (MaxReadIndex(width, height) < Len(nv12_data)) => junk = 0
          /\ rgb_data' = NV12ToRGB(nv12_data, width, height, junk)
    /\ Quiet /\ Goto("write")
    /\ UNCHANGED <<CpuKeep, argc, width, height, nv12_size, nv12_data>>

\* write output.rgb
CpuWrite ==
    /\ prog = "cpu" /\ pc = "write"
    /\ Say("Conversion done, output.rgb generated") /\ Exit("0")
    /\ UNCHANGED <<CpuKeep, cpuVars, nv12_size>>

CpuNext == CpuArgs \/ CpuSize \/ CpuRead \/ CpuConvert \/ CpuWrite

\* ------------------------------------ CPU converter: the body of the loops
\* chroma bytes the pixel is converted with
ChromaSamples == {0, 16, 128, 240, 255}

\* the Y, U and V bytes the loop body reads for one pixel
InitPx ==
    /\ prog = "px" /\ InitCommon /\ IdleCpu /\ IdleVk
    /\ fileExists = FALSE /\ file = <<>>
    /\ texel \in (0..255) \X ChromaSamples \X ChromaSamples

\* the body of the loops of NV12ToRGB for one pixel: C, D, E, the three
\* channels, the clamps, the three stores
PxMain ==
    /\ prog = "px" /\ pc = "start"
    /\ rgb_data' = PixelRGB(texel[1], texel[2], texel[3])
    /\ Quiet /\ Goto("done")
    /\ UNCHANGED <<CpuKeep, argc, width, height, nv12_data, oobRead, nv12_size>>

\* ----------------------------------------------- Vulkan scaler: the input
VkKeep == <<calls, prog, file, fileExists, bufVars, gbmVars, eglVars, procVars, imgVars,
            glVars, failed, cpuVars, nv12_size, fsVars>>

\* the local size of the compute shaders the group counts are computed for
LocalSize == 16

\* output sizes at and around the multiples of the local size
GridDims == {LocalSize, LocalSize + 2, 2 * LocalSize, 2 * LocalSize + 2}

\* argc, and argv[2..5] as strings
InitVk ==
    /\ prog = "vulkan" /\ InitCommon /\ InitSizedFile /\ width = 0 /\ height = 0 /\ IdleFs
    /\ argc \in {1, 4, 6}
    /\ inW \in DimArgs /\ inH \in DimArgs
    /\ outW \in {Digits(n) : n \in (0..MaxDim) \cup GridDims}
    /\ outH \in {Digits(2), Digits(MaxDim), Digits(2 * LocalSize + 2)}

\* defaults, argument parsing, the even check
vkOutVars == <<outImgY, outImgUV, stgOutY, stgOutUV, outFile>>

VkArgs ==
    /\ prog = "vulkan" /\ pc = "start"
    /\ LET w == IF argc >= 4 THEN atoi(inW) ELSE 640
           h == IF argc >= 4 THEN atoi(inH) ELSE 480
           ow == IF argc >= 6 THEN atoi(outW) ELSE 320
           oh == IF argc >= 6 THEN atoi(outH) ELSE 240
       IN  /\ inW' = w /\ inH' = h /\ outW' = ow /\ outH' = oh
           /\ IF w % 2 # 0 \/ h % 2 # 0 \/ ow % 2 # 0 \/ oh % 2 # 0
              THEN Err("width and height must be even for NV12") /\ Exit("1")
              ELSE Quiet /\ Goto("read")
    /\ UNCHANGED <<VkKeep, inSize, ySize, uvSize, vkOutVars, layout, vkLog>>

\* one logged call: the image and buffer it names, the layouts it names, the
\* group counts of a dispatch, and the layout every image is in when it runs
Entry(op, image, buffer, oldLayout, newLayout, gx, gy, layouts) ==
    [op |-> op, image |-> image, buffer |-> buffer, oldLayout |-> oldLayout,
     newLayout |-> newLayout, gx |-> gx, gy |-> gy, layouts |-> layouts]

\* a call that names no image layout
HostOp(op, buffer, layouts) == Entry(op, "", buffer, "", "", 0, 0, layouts)

\* the recording state: the image layouts as the commands recorded so far leave
\* them, and the log.  One command buffer is recorded and run at a time and its
\* commands run in recording order, so the layout at recording is the layout
\* at execution.
Record(st, e) == [st EXCEPT !.log = Append(@, e)]

beginSingle(st) == Record(st, HostOp("vkBeginCommandBuffer", "", st.layout))

\* a submission the host does not wait for
endSingle_NoWait(st) ==
    [st EXCEPT !.log = @ \o <<HostOp("vkEndCommandBuffer", "", st.layout),
                              HostOp("vkQueueSubmit", "", st.layout),
                              HostOp("vkResetCommandBuffer", "", st.layout)>>]

endSingle(st) ==
    [st EXCEPT !.log = @ \o <<HostOp("vkEndCommandBuffer", "", st.layout),
                              HostOp("vkQueueSubmit", "", st.layout),
                              HostOp("vkQueueWaitIdle", "", st.layout),
                              HostOp("vkResetCommandBuffer", "", st.layout)>>]

\* the transitions setImageLayout sets access masks and stages for
HandledTransitions ==
    {<<"UNDEFINED", "TRANSFER_DST_OPTIMAL">>, <<"TRANSFER_DST_OPTIMAL", "GENERAL">>,
     <<"GENERAL", "TRANSFER_SRC_OPTIMAL">>, <<"UNDEFINED", "GENERAL">>}

\* the barrier is recorded whether or not the transition is a handled one
setImageLayout(st, image, oldLayout, newLayout) ==
    [layout |-> [st.layout EXCEPT ![image] = newLayout],
     log |-> Append(st.log, Entry("vkCmdPipelineBarrier", image, "", oldLayout, newLayout,
                                  0, 0, st.layout))]

vkCmdCopyBufferToImage(st, buffer, image, dstImageLayout) ==
    Record(st, Entry("vkCmdCopyBufferToImage", image, buffer, dstImageLayout, "", 0, 0,
                     st.layout))

vkCmdCopyImageToBuffer(st, image, srcImageLayout, buffer) ==
    Record(st, Entry("vkCmdCopyImageToBuffer", image, buffer, srcImageLayout, "", 0, 0,
                     st.layout))

vkCmdDispatch(st, pipeline, gx, gy) ==
    Record(st, Entry("vkCmdDispatch", pipeline, "", "", "", gx, gy, st.layout))

\* transition inputs and outputs
TransitionAll(st) ==
    endSingle(
      setImageLayout(
        setImageLayout(
          setImageLayout(
            setImageLayout(beginSingle(st), "imgY", "UNDEFINED", "TRANSFER_DST_OPTIMAL"),
            "imgUV", "UNDEFINED", "TRANSFER_DST_OPTIMAL"),
          "outY", "UNDEFINED", "GENERAL"),
        "outUV", "UNDEFINED", "GENERAL"))

\* copy staging -> images
CopyStagingToImages(st) ==
    endSingle(
      vkCmdCopyBufferToImage(
        vkCmdCopyBufferToImage(beginSingle(st), "stgY", "imgY", "TRANSFER_DST_OPTIMAL"),
        "stgUV", "imgUV", "TRANSFER_DST_OPTIMAL"))

\* a program that leaves the inputs in TRANSFER_DST_OPTIMAL
TransitionInputsToGeneral_Skipped(st) == st

\* transition inputs to GENERAL for compute
TransitionInputsToGeneral(st) ==
    endSingle(
      setImageLayout(
        setImageLayout(beginSingle(st), "imgY", "TRANSFER_DST_OPTIMAL", "GENERAL"),
        "imgUV", "TRANSFER_DST_OPTIMAL", "GENERAL"))

\* a group count that drops the partial group
WorkGroups_RoundedDown(n) == CDiv(n, LocalSize)

\* (n + 15) / 16 in int
WorkGroups(n) == CDiv(AddInt32(n, LocalSize - 1), LocalSize)

\* dispatch Y compute
DispatchY(st) ==
    endSingle(vkCmdDispatch(beginSingle(st), "pipeY", WorkGroups(outW), WorkGroups(outH)))

\* dispatch UV compute on the half resolution planes
DispatchUV(st) ==
    endSingle(vkCmdDispatch(beginSingle(st), "pipeUV", WorkGroups(CDiv(outW, 2)),
                            WorkGroups(CDiv(outH, 2))))

\* transition out images to TRANSFER_SRC
TransitionOutputs(st) ==
    endSingle(
      setImageLayout(
        setImageLayout(beginSingle(st), "outY", "GENERAL", "TRANSFER_SRC_OPTIMAL"),
        "outUV", "GENERAL", "TRANSFER_SRC_OPTIMAL"))

\* copy the output images to the host buffers
CopyImagesToStaging(st) ==
    endSingle(
      vkCmdCopyImageToBuffer(
        vkCmdCopyImageToBuffer(beginSingle(st), "outY", "TRANSFER_SRC_OPTIMAL", "stgOutY"),
        "outUV", "TRANSFER_SRC_OPTIMAL", "stgOutUV"))

\* the recording state of the program
VkState == [layout |-> layout, log |-> vkLog]

\* size_t(inW) * size_t(inH) * 3 / 2, the vector of that size, the read.  A
\* negative product converts to a size no vector can have.
VkReadInput ==
    /\ prog = "vulkan" /\ pc = "read"
    /\ IF inW * inH < 0
       THEN /\ Quiet /\ pc' = "exited" /\ exitStatus' = "SIGABRT"
            /\ UNCHANGED <<inSize, vkLog>>
       ELSE /\ inSize' = (inW * inH * 3) \div 2
            /\ IF ~fileExists
               THEN /\ Err("failed open input nv12") /\ Exit("1")
                    /\ vkLog' = Append(vkLog, HostOp("ifstream", "inPath", layout))
               ELSE /\ vkLog' = vkLog \o <<HostOp("ifstream", "inPath", layout),
                                            HostOp("inf.read", "inPath", layout)>>
                    /\ IF Len(file) < (inW * inH * 3) \div 2
                       THEN Err("input size mismatch") /\ Exit("1")
                       ELSE Quiet /\ Goto("plane_sizes")
    /\ UNCHANGED <<VkKeep, inW, inH, outW, outH, ySize, uvSize, vkOutVars, layout>>

\* ySize, uvSize
VkPlaneSizes ==
    /\ prog = "vulkan" /\ pc = "plane_sizes"
    /\ ySize' = inW * inH
    /\ uvSize' = CDiv(inW, 2) * CDiv(inH, 2) * 2
    /\ Quiet /\ Goto("vk_init")
    /\ UNCHANGED <<VkKeep, inW, inH, outW, outH, inSize, vkOutVars, layout, vkLog>>

\* the fatal failures of instance, device, image, view and staging-buffer
\* creation, each reported through die()
VkInitFailures ==
    {"vkCreateInstance failed", "no GPU with Vulkan support", "no compute queue",
     "vkCreateDevice failed", "cmdpool create fail", "no suitable memory type",
     "createImage fail", "alloc mem fail", "create view fail", "createBuffer fail",
     "alloc buf mem fail", "alloc cb"}

\* an image can be created only with extents of at least 1
ImageExtentsValid == inW \div 2 >= 1 /\ inH \div 2 >= 1 /\ outW \div 2 >= 1 /\ outH \div 2 >= 1

\* Vulkan init, images, views, staging buffers, command buffer
VkInit ==
    /\ prog = "vulkan" /\ pc = "vk_init"
    /\ \E f \in VkInitFailures \cup {"none"} :
          /\ (f = "none" => ImageExtentsValid)
          /\ IF f = "none"
             THEN /\ Quiet /\ Goto("upload")
                  \* createImage: initialLayout UNDEFINED; then fill staging input
                  /\ layout' = [i \in Images |-> "UNDEFINED"]
                  /\ vkLog' = vkLog \o <<HostOp("vkCreateInstance", "", layout),
                                          HostOp("memcpy", "stgY", layout),
                                          HostOp("memcpy", "stgUV", layout)>>
             ELSE /\ Err(f) /\ Exit("1")
                  /\ vkLog' = Append(vkLog, HostOp("vkCreateInstance", "", layout))
                  /\ UNCHANGED layout
    /\ UNCHANGED <<VkKeep, inW, inH, outW, outH, inSize, ySize, uvSize, vkOutVars>>

\* layout transitions, staging -> image copies, transition to GENERAL
VkUpload ==
    /\ prog = "vulkan" /\ pc = "upload"
    /\ LET st == TransitionInputsToGeneral(CopyStagingToImages(TransitionAll(VkState)))
       IN  layout' = st.layout /\ vkLog' = st.log
    /\ Quiet /\ Goto("pipelines")
    /\ UNCHANGED <<VkKeep, inW, inH, outW, outH, inSize, ySize, uvSize, vkOutVars>>

\* the fatal failures of descriptor, layout and pipeline creation
VkPipelineFailures ==
    {"create dslY fail", "create dslUV fail", "create plY fail", "create plUV fail",
     "create dpool fail", "alloc dsetY fail", "alloc dsetUV fail", "failed to open file",
     "create shader module fail", "create comp pipeline fail"}

\* descriptor layouts, pipeline layouts, descriptor sets, compute pipelines
VkPipelines ==
    /\ prog = "vulkan" /\ pc = "pipelines"
    /\ \E f \in VkPipelineFailures \cup {"none"} :
          IF f = "none" THEN Quiet /\ Goto("dispatch") ELSE Err(f) /\ Exit("1")
    /\ UNCHANGED <<VkKeep, vkVars>>

\* the bytes a compute shader may leave in an output image of n bytes
ImageContents(p, first, n) == [k \in 1..n |-> PatByte(p, outW, outH, first + k - 1)]

\* the two compute dispatches; what the shaders (compute_y.spv, compute_uv.spv)
\* write into outY and outUV is theirs to decide
VkDispatch ==
    /\ prog = "vulkan" /\ pc = "dispatch"
    /\ \E p \in Pats :
          /\ outImgY' = ImageContents(p, 0, outW * outH)
          /\ outImgUV' = ImageContents(p, outW * outH, (outW \div 2) * (outH \div 2) * 2)
    /\ LET st == DispatchUV(DispatchY(VkState))
       IN  layout' = st.layout /\ vkLog' = st.log
    /\ Quiet /\ Goto("readback")
    /\ UNCHANGED <<VkKeep, inW, inH, outW, outH, inSize, ySize, uvSize, stgOutY, stgOutUV,
                   outFile>>

\* vkCmdCopyImageToBuffer with bufferRowLength 0: the texels of the extent,
\* tightly packed, into a buffer of size bytes
CopyImageToBuffer(texels, size) == SubSeq(texels, 1, Min(Len(texels), size))

\* transition to TRANSFER_SRC, copy the output images to the staging buffers
VkReadback ==
    /\ prog = "vulkan" /\ pc = "readback"
    /\ stgOutY' = CopyImageToBuffer(outImgY, outW * outH)
    /\ stgOutUV' = CopyImageToBuffer(outImgUV, (outW \div 2) * (outH \div 2) * 2)
    /\ LET st == CopyImagesToStaging(TransitionOutputs(VkState))
       IN  layout' = st.layout /\ vkLog' = st.log
    /\ Quiet /\ Goto("write")
    /\ UNCHANGED <<VkKeep, inW, inH, outW, outH, inSize, ySize, uvSize, outImgY, outImgUV,
                   outFile>>

\* a write that replaces what the stream holds
OfstreamWrite_Replacing(f, buf, n) == SubSeq(buf, 1, n)

\* outf.write(buf, n): the stream after the write
OfstreamWrite(f, buf, n) == f \o SubSeq(buf, 1, n)

\* map the staging buffers, write the Y plane, then the UV plane
VkWrite ==
    /\ prog = "vulkan" /\ pc = "write"
    /\ \E ok \in BOOLEAN :
          IF ok
          THEN LET outWuv == outW \div 2
                   outHuv == outH \div 2
               IN  /\ outFile' = OfstreamWrite(OfstreamWrite(<<>>, stgOutY, outW * outH),
                                               stgOutUV, outWuv * outHuv * 2)
                   /\ vkLog' = vkLog \o <<HostOp("outf.write", "stgOutY", layout),
                                           HostOp("outf.write", "stgOutUV", layout)>>
                   /\ Say("Wrote scaled NV12 to") /\ Goto("cleanup")
          ELSE /\ Err("failed to open output file") /\ Exit("1")
               /\ UNCHANGED <<outFile, vkLog>>
    /\ UNCHANGED <<VkKeep, inW, inH, outW, outH, inSize, ySize, uvSize, outImgY, outImgUV,
                   stgOutY, stgOutUV, layout>>

\* destroy the Vulkan objects, return 0
VkCleanup ==
    /\ prog = "vulkan" /\ pc = "cleanup"
    /\ Quiet /\ Exit("0")
    /\ UNCHANGED <<VkKeep, vkVars>>

VkNext ==
    \/ VkArgs \/ VkReadInput \/ VkPlaneSizes \/ VkInit \/ VkUpload \/ VkPipelines
    \/ VkDispatch \/ VkReadback \/ VkWrite \/ VkCleanup

\* ------------------------------------------------------- fragment shader
\* the coefficients of the shader, in millionths
CoefRV == 1402000
CoefGU == 344136
CoefGV == 714136
CoefBU == 1772000

\* A texel byte b is sampled as b/255; u and v are b/255 - 0.5 = (2b - 255)/510.
\* With y = 2Y/510 every channel is num / (510 * 10^6); written to an 8-bit
\* target it is clamped to [0,1], scaled by 255 and rounded to nearest:
\* floor(num / (2 * 10^6) + 1/2), clamped to 0..255.
ToUnorm8(num) == Clamp8((num + 1000000) \div 2000000)

\* main() of the fragment shader on the sampled bytes: the 8-bit <<R, G, B>>
FragColor8(Y, U, V) ==
    LET y == 2 * Y * 1000000
        u == 2 * U - 255
        v == 2 * V - 255
    IN  << ToUnorm8(y + CoefRV * v),
           ToUnorm8(y - CoefGU * u - CoefGV * v),
           ToUnorm8(y + CoefBU * u) >>

SampleBytes == {0, 16, 128, 235, 255}

InitFs ==
    /\ prog = "fs" /\ InitCommon /\ IdleCpu /\ IdleVk
    /\ fileExists = FALSE /\ file = <<>>
    /\ texel \in SampleBytes \X SampleBytes \X SampleBytes

FsMain ==
    /\ prog = "fs" /\ pc = "start"
    /\ fragColor' = FragColor8(texel[1], texel[2], texel[3])
    /\ Quiet /\ Goto("done")
    /\ UNCHANGED <<calls, prog, file, fileExists, bufVars, gbmVars, eglVars, procVars, imgVars,
                   glVars, failed, cpuVars, nv12_size, vkVars, texel>>

Init == InitGbm \/ InitViewer \/ InitMemfd \/ InitCpu \/ InitPx \/ InitVk \/ InitFs

Next == GbmNext \/ ViewerNext \/ MemfdNext \/ CpuNext \/ PxMain \/ VkNext \/ FsMain

Spec == Init /\ [][Next]_vars

\* ================================================================ claims
Range(s) == {s[i] : i \in 1..Len(s)}

\* the Y and UV bytes of the input file, as the readers split it
FileY == Fread(file, 0, y_size)
FileUV == Fread(file, y_size, uv_size)

\* messages of the fatal setup failures of the GBM/EGL program
GbmSetupDiagnostics ==
    {"Failed open", "alloc failed", "read nv12 failed or wrong file size",
     "XOpenDisplay failed", "eglGetDisplay failed", "eglInitialize failed",
     "eglChooseConfig failed", "eglCreateContext failed", "eglMakeCurrent failed",
     "create_program failed"}

\* messages written when a step of the dma-buf path fails or is unavailable
GbmDmaBufDiagnostics ==
    {"open /dev/dri/renderD128", "gbm_create_device failed", "gbm_bo_create failed",
     "gbm export fd failed", "mmap gbm_export_fd",
     "Can't mmap exported gbm fd; falling back to CPU upload",
     "glEGLImageTargetTexture2DOES not available",
     "EGL_EXT_image_dma_buf_import NOT available -> will fallback to CPU GL upload",
     "eglCreateImage(dma_buf) failed", "glEGLImageTargetTexture2DOES failed"}

\* the fallback textures hold the frame on units 0 and 1
FallbackTexturesBound ==
    /\ binding[0] # 0 /\ binding[1] # 0
    /\ textures[binding[0]] = TexImage("GL_LUMINANCE", WIDTH, HEIGHT, FileY)
    /\ textures[binding[1]] =
          TexImage("GL_LUMINANCE_ALPHA", WIDTH \div 2, HEIGHT \div 2, FileUV)

\* C1: in the GBM/EGL program no outcome of the dma-buf steps makes the
\* program exit or call through a null entry point, and the first draw finds
\* textures to sample from (the imported texture, or the two fallback textures).
\* The stride is no outcome the claim quantifies over: runs whose fill left the
\* mapping are set aside here.
C1_ImportFailureNeverFatal ==
    prog = "gbm" /\ ~oob =>
        /\ ~nullCall
        /\ exitStatus # "SIGSEGV"
        /\ (pc = "exited" /\ exitStatus = "1" =>
                stderr # <<>> /\ stderr[Len(stderr)] \in GbmSetupDiagnostics)
        /\ (pc = "draw" =>
                IF imported = 0 THEN FallbackTexturesBound
                ELSE binding[0] # 0 /\ textures[binding[0]].fmt = "EGLIMAGE")

\* the probe reported EGL_EXT_image_dma_buf_import absent
ProbedAbsent ==
    "EGL_EXT_image_dma_buf_import NOT available -> will fallback to CPU GL upload"
        \in Range(stderr)

\* C2: when egl_has_ext reports the import extension absent, eglCreateImage is
\* never called, imported stays 0, and from the first draw on the Y bytes are a
\* single-channel texture on unit 0 and the UV bytes a two-channel texture on
\* unit 1, whatever the GBM steps did.
C2_ExtAbsentFallsBack ==
    prog = "gbm" /\ ProbedAbsent =>
        /\ createImageCalls = 0
        /\ imported = 0
        /\ imgState = "none"
        /\ (pc \in {"draw", "loop", "cleanup"} \/ draws > 0 => FallbackTexturesBound)

C2_Witness ==
    /\ prog = "gbm" /\ ProbedAbsent /\ pc = "loop" /\ draws > 0
    /\ use_gbm = 1 /\ p_eglCreateImage /\ p_glEGLImageTargetTexture2DOES

\* C3: every run of the GBM/EGL program that performs the fallback upload has
\* written a diagnostic for the dma-buf step that failed before the upload.
C3_FallbackHasDiagnostic ==
    prog = "gbm" /\ "Fallback: uploaded Y/UV to GL textures" \in Range(stdout) =>
        Range(stderr) \cap GbmDmaBufDiagnostics # {}

\* C6: after the CPU fill, reading the two planes back at the layout given to
\* the importer (offset0/stride0, offset1/stride1) yields the bytes of the file.
C6_FillRoundTrip ==
    prog = "gbm" /\ mapState = "unmapped" =>
        /\ \A r \in 0..(HEIGHT - 1), c \in 0..(WIDTH - 1) :
              /\ (offset0 + r * stride0 + c) \in DOMAIN dmabuf
              /\ dmabuf[offset0 + r * stride0 + c] = At(FileY, r * WIDTH + c)
        /\ \A r \in 0..((HEIGHT \div 2) - 1), c \in 0..(WIDTH - 1) :
              /\ (offset1 + r * stride1 + c) \in DOMAIN dmabuf
              /\ dmabuf[offset1 + r * stride1 + c] = At(FileUV, r * WIDTH + c)

\* C7: on the dma-buf path (use_gbm = 1) the chroma plane starts at or after
\* the end of the luma plane and both strides are at least WIDTH.
C7_PlaneLayoutInvariant ==
    prog = "gbm" /\ use_gbm = 1 =>
        /\ offset1 >= offset0 + stride0 * HEIGHT
        /\ stride0 >= WIDTH
        /\ stride1 >= WIDTH
\* the calls whose failure is a fatal setup failure
SetupCalls ==
    {"XOpenDisplay", "eglGetDisplay", "eglInitialize", "eglChooseConfig",
     "eglCreateWindowSurface", "eglCreatePbufferSurface", "eglCreateContext",
     "eglMakeCurrent", "fopen", "fread"}

LastOf(s) == s[Len(s)]

\* the program has stopped with a diagnostic and a non-zero exit status
StoppedWithDiagnostic ==
    /\ pc = "exited"
    /\ exitStatus \in {"1", "-1"}
    /\ IF prog = "gbm" THEN stderr # <<>> ELSE stdout # <<>>

\* C4: in the three EGL programs a failure to obtain the display, a config, a
\* surface, a context, a current context or the input file is fatal: no texture
\* is created and no draw call issued after it, and the program ends with a
\* diagnostic and a non-zero exit status, never with status 0 (a fault from
\* another cause set aside).
C4_SetupFailureIsFatal ==
    prog \in {"gbm", "viewer", "memfd"} /\ failed \cap SetupCalls # {} =>
        /\ textures = <<>>
        /\ draws = 0
        /\ (pc = "exited" /\ exitStatus # "SIGSEGV" => StoppedWithDiagnostic)

\* C5: in the memfd test an eglCreateImage that returns EGL_NO_IMAGE_KHR is not
\* fatal: the program does not end before its draw call.
C5_MemfdImportFailureNotFatal ==
    prog = "memfd" /\ createImageCalls > 0 /\ img = "NO_IMAGE" =>
        ~(pc = "exited" /\ draws = 0)

\* nv12_data is a white frame of width x height: every luma byte 255, every
\* chroma byte 128
IsWhiteFrame ==
    /\ Len(nv12_data) = width * height + (width * height) \div 2
    /\ \A k \in 1..Len(nv12_data) :
          nv12_data[k] = IF k <= width * height THEN 255 ELSE 128

EvenAtLeast2(n) == n >= 2 /\ n % 2 = 0

\* C8: NV12ToRGB on a white frame (all luma 255, all chroma 128) of even
\* width and height >= 2 yields width*height*3 bytes, every one 255.
C8_WhiteFrameConvertsToWhite ==
    /\ prog = "cpu" /\ pc \in {"write", "exited"} /\ rgb_data # <<>>
    /\ EvenAtLeast2(width) /\ EvenAtLeast2(height)
    /\ IsWhiteFrame
    => /\ Len(rgb_data) = width * height * 3
       /\ \A k \in 1..Len(rgb_data) : rgb_data[k] = 255
       /\ ~oobRead

C8_Witness ==
    /\ prog = "cpu" /\ pc = "exited" /\ exitStatus = "0"
    /\ width >= 4 /\ height >= 4
    /\ IsWhiteFrame
    /\ Len(rgb_data) = width * height * 3

\* C9: the fragment shader, on a texel sampled from the bytes Y = 255,
\* U = V = 128, writes (255, 255, 255) to an 8-bit colour target.
C9_ShaderWhiteIsWhite ==
    prog = "fs" /\ pc = "done" /\ texel = <<255, 128, 128>> =>
        fragColor = <<255, 255, 255>>

\* C10: for even width and height >= 2 the number of bytes each program uses
\* for the frame is width*height*3/2, the luma plane (width*height) plus the
\* interleaved chroma plane ((width/2)*(height/2)*2).
C10_FrameByteCount ==
    /\ (prog = "cpu" /\ argc = 4 /\ pc \notin {"start", "size"}
        /\ EvenAtLeast2(width) /\ EvenAtLeast2(height)
        => nv12_size = width * height + (width \div 2) * (height \div 2) * 2)
    /\ (prog = "vulkan" /\ pc = "vk_init"
        /\ EvenAtLeast2(inW) /\ EvenAtLeast2(inH)
        => /\ inSize = (inW * inH * 3) \div 2
           /\ inSize = ySize + uvSize
           /\ ySize = inW * inH
           /\ uvSize = (inW \div 2) * (inH \div 2) * 2)
    /\ (prog \in {"gbm", "viewer"} /\ bufState = "alloc" /\ pc # "exited"
        => /\ Len(bufY) + Len(bufUV) = (WIDTH * HEIGHT * 3) \div 2
           /\ Len(bufY) = WIDTH * HEIGHT
           /\ Len(bufUV) = (WIDTH \div 2) * (HEIGHT \div 2) * 2)
    /\ (prog = "memfd" /\ pc \notin {"start", "egl_initialize", "egl_choose_config",
                                     "egl_create_surface", "egl_create_context",
                                     "egl_make_current", "create_buf"}
        => nv12_size = (WIDTH * HEIGHT * 3) \div 2)

\* the reader is past its file read and still running
PastRead ==
    \/ prog = "gbm" /\ pc \notin {"start", "exited"}
    \/ prog = "viewer" /\ pc \in {"create_program", "upload", "draw", "wait", "cleanup"}

\* C11: a frame written by the generator (Y plane, then UV plane) and read by
\* a reader of the same width and height gives Y and UV buffers byte-identical
\* to the planes written; a file shorter than width*height*3/2 bytes is
\* rejected: the reader stops with a non-zero status and uses none of it.
C11_WriteReadRoundTrip ==
    prog \in {"gbm", "viewer"} =>
        /\ (PastRead /\ bufState = "alloc" =>
               \E p \in Pats :
                  /\ file = GeneratedFile(p, WIDTH, HEIGHT)
                  /\ bufY = yPlane(p, WIDTH, HEIGHT)
                  /\ bufUV = uvPlane(p, WIDTH, HEIGHT))
        /\ (fileExists /\ Len(file) < (WIDTH * HEIGHT * 3) \div 2 =>
               /\ ~PastRead
               /\ textures = <<>> /\ draws = 0 /\ mapState = "none"
               /\ (pc = "exited" => exitStatus # "0"))

C11_Witness ==
    /\ prog = "viewer" /\ pc = "upload" /\ bufState = "alloc"
    /\ file = GeneratedFile("ramp", WIDTH, HEIGHT)
    /\ bufY = yPlane("ramp", WIDTH, HEIGHT)
    /\ bufUV = uvPlane("ramp", WIDTH, HEIGHT)

\* the positions of call c in the log
Pos(c) == {i \in 1..Len(calls) : calls[i] = c}

Called(c) == Pos(c) # {}

\* every call a comes before every call b
AllBefore(a, b) == \A i \in Pos(a), j \in Pos(b) : i < j

\* the close of the exported descriptor
CloseExported == IF prog = "memfd" THEN "close(dma_fd)" ELSE "close(gbm_export_fd)"

\* C12: in the GBM/EGL program and the memfd test the mapping is mapped,
\* written and unmapped in that order and unmapped before the import is
\* requested; the exported descriptor is not passed to mmap or eglCreateImage
\* after its close, and it is closed only after the image created from it has
\* been destroyed.
C12_MapAndDescriptorOrder ==
    prog \in {"gbm", "memfd"} =>
        /\ AllBefore("mmap", "memcpy") /\ (Called("memcpy") => Called("mmap"))
        /\ AllBefore("memcpy", "munmap") /\ (Called("munmap") => Called("memcpy"))
        /\ AllBefore("munmap", "eglCreateImage")
        /\ (Called("eglCreateImage") => Called("munmap"))
        /\ AllBefore("mmap", CloseExported)
        /\ AllBefore("eglCreateImage", CloseExported)
        /\ (Called(CloseExported) /\ imgState # "none" =>
               /\ Called("eglDestroyImage")
               /\ AllBefore("eglDestroyImage", CloseExported))

\* resource r was acquired during the run
Acquired(r) ==
    IF r = "drm_fd" THEN drm_fd >= 0
    ELSE IF r = "gbm" THEN gbm
    ELSE IF r = "bo" THEN bo
    ELSE IF r = "export_fd" THEN gbm_export_fd >= 0
    ELSE FALSE

\* C13: in every run of the GBM/EGL program that prints "Done.", each of the
\* render-node descriptor, the GBM device, the buffer object and the exported
\* descriptor that was acquired has been released exactly once, also when a
\* later step of the GBM path failed.
C13_AcquiredReleasedOnce ==
    prog = "gbm" /\ "Done." \in Range(stdout) =>
        \A r \in {"drm_fd", "gbm", "bo", "export_fd"} :
            relCount[r] = IF Acquired(r) THEN 1 ELSE 0

\* the steps of the dma-buf path
DmaBufSteps ==
    {"open", "gbm_create_device", "gbm_bo_create", "export", "mmap",
     "eglCreateImage", "glEGLImageTargetTexture2DOES"}

\* the run is past the upload decision
PastUpload == pc = "free" \/ Called("free")

\* C14: in the GBM/EGL program every step of the dma-buf path is attempted at
\* most once per run, never again after a failure; the fallback upload is
\* performed exactly once when imported = 0 at the upload decision and not at
\* all when imported = 1.
C14_NoRetrySingleFallback ==
    prog = "gbm" =>
        /\ \A c \in DmaBufSteps : Cardinality(Pos(c)) <= 1
        /\ Cardinality(Pos("glTexImage2D")) =
              IF PastUpload /\ imported = 0 THEN 1 ELSE 0

C14_Witness ==
    /\ prog = "gbm" /\ pc = "cleanup" /\ draws > 1
    /\ Called("eglCreateImage") /\ Called("glEGLImageTargetTexture2DOES")
    /\ imported = 0 /\ Called("glTexImage2D")

\* C15: in the GBM/EGL program an import is requested only in runs where the
\* extension probe succeeded and the buffer was allocated, exported and filled
\* (use_gbm = 1, gbm_export_fd >= 0, bo non-null); imported = 1 at the upload
\* decision only if eglCreateImage returned an image, the bind reported
\* GL_NO_ERROR and the image has not been destroyed.
C15_ImportPreconditions ==
    prog = "gbm" =>
        /\ (Called("eglCreateImage") =>
               /\ have_dma_ext # 0
               /\ use_gbm = 1 /\ gbm_export_fd >= 0 /\ bo /\ gbm
               /\ Called("memcpy") /\ mapState = "unmapped")
        /\ (imported = 1 /\ pc \in {"create_program", "upload", "free", "draw", "loop", "cleanup"} =>
               /\ Called("eglCreateImage")
               /\ img = "image" /\ imgState = "live"
               /\ ~Called("eglDestroyImage")
               /\ "glEGLImageTargetTexture2DOES failed" \notin Range(stderr)
               /\ "Imported EGLImage from GBM-exported dma-buf and bound to texture"
                     \in Range(stdout))

C15_Witness ==
    /\ prog = "gbm" /\ pc = "upload" /\ imported = 1
    /\ imgState = "live" /\ Called("eglCreateImage")

\* the textures uploaded from the CPU buffers hold whole planes
UploadedWholePlanes ==
    \A t \in 1..Len(textures) :
        /\ (textures[t].fmt \in {"GL_LUMINANCE", "GL_R8"} => textures[t].data = FileY)
        /\ (textures[t].fmt \in {"GL_LUMINANCE_ALPHA", "GL_RG8"} => textures[t].data = FileUV)

\* C16: in the GBM/EGL program and the GLES3 viewer the CPU frame buffers are
\* written once, by the file read; the texture upload and the dma-buf fill
\* read them only while they are allocated; and they are freed exactly once
\* on every run that reaches the draw call.
C16_CpuBufferLifecycle ==
    prog \in {"gbm", "viewer"} =>
        /\ Cardinality(Pos("malloc")) <= 1
        /\ Cardinality(Pos("fread")) <= 1
        /\ Cardinality(Pos("free")) <= 1
        /\ AllBefore("malloc", "fread")
        /\ AllBefore("fread", "memcpy") /\ AllBefore("fread", "glTexImage2D")
        /\ AllBefore("memcpy", "free") /\ AllBefore("glTexImage2D", "free")
        /\ (Called("memcpy") \/ Called("glTexImage2D") => Called("fread"))
        /\ UploadedWholePlanes
        /\ (bufState = "alloc" <=> Called("malloc") /\ ~Called("free"))
        /\ (draws > 0 => Cardinality(Pos("free")) = 1 /\ bufState = "freed")

C16_Witness ==
    /\ prog = "gbm" /\ draws > 0
    /\ Called("memcpy") /\ Called("glTexImage2D")
    /\ Cardinality(Pos("free")) = 1 /\ bufState = "freed"

\* C17: on a successful run the Vulkan scaler writes an output file of exactly
\* outW*outH*3/2 bytes: the outW*outH bytes of the scaled Y plane, then the
\* (outW/2)*(outH/2)*2 bytes of the scaled UV plane, for even outW, outH >= 2.
C17_OutputFileLayout ==
    /\ prog = "vulkan" /\ pc = "exited" /\ exitStatus = "0"
    /\ EvenAtLeast2(outW) /\ EvenAtLeast2(outH)
    => /\ Len(outFile) = (outW * outH * 3) \div 2
       /\ Len(outImgY) = outW * outH
       /\ Len(outImgUV) = (outW \div 2) * (outH \div 2) * 2
       /\ SubSeq(outFile, 1, outW * outH) = outImgY
       /\ SubSeq(outFile, outW * outH + 1, Len(outFile)) = outImgUV

C17_Witness ==
    /\ prog = "vulkan" /\ pc = "exited" /\ exitStatus = "0"
    /\ argc = 6 /\ outW >= 4 /\ outH >= 4
    /\ Len(outFile) = (outW * outH * 3) \div 2

\* the texture bound to unit u is the one the EGLImage was attached to
ImportedTextureBound(u) == binding[u] # 0 /\ textures[binding[u]].fmt = "EGLIMAGE"

\* a draw call is about to be issued or has been issued
AtDraw == prog = "gbm" /\ (pc \in {"draw", "loop"} \/ draws > 0)

\* C18: in the GBM/EGL program, on the imported path the imported texture is
\* bound to both texture unit 0 and texture unit 1 at every draw call.
C18_ImportedTextureOnBothUnits ==
    AtDraw /\ imported = 1 => ImportedTextureBound(0) /\ ImportedTextureBound(1)

\* the offsets and row pitches the CPU fill wrote with: the copy loops of the
\* GBM/EGL program, fill_nv12 of the memfd test
FillLayout ==
    IF prog = "memfd"
    THEN [offset0 |-> 0, pitch0 |-> WIDTH, offset1 |-> WIDTH * HEIGHT, pitch1 |-> WIDTH]
    ELSE [offset0 |-> offset0, pitch0 |-> stride0, offset1 |-> offset1, pitch1 |-> stride1]

\* an image description has been handed to eglCreateImage for a buffer that
\* was mapped, filled and unmapped
DescribedAfterFill ==
    prog \in {"gbm", "memfd"} /\ createImageCalls > 0 /\ mapState = "unmapped"

\* the description names the layout of the fill
DescriptionIsFillLayout ==
    /\ attr.width = WIDTH /\ attr.height = HEIGHT
    /\ attr.fd0 = gbm_export_fd /\ attr.fd1 = gbm_export_fd
    /\ attr.offset0 = FillLayout.offset0 /\ attr.pitch0 = FillLayout.pitch0
    /\ attr.offset1 = FillLayout.offset1 /\ attr.pitch1 = FillLayout.pitch1

\* both described planes end inside the mapped size
DescribedPlanesInsideMapping ==
    /\ attr.offset0 + attr.pitch0 * attr.height <= total_sz
    /\ attr.offset1 + attr.pitch1 * (attr.height \div 2) <= total_sz

\* C19: in both dma-buf programs the image description handed to eglCreateImage
\* is exactly the layout the CPU fill wrote with, and every byte of both
\* described planes lies inside the size that was mapped and filled.
C19_DescriptionMatchesFill ==
    DescribedAfterFill => DescriptionIsFillLayout /\ DescribedPlanesInsideMapping

\* the addresses, relative to the mapping, one copy loop writes
WriteAddrs(off, stride, rows, rowlen) ==
    {off + r * stride + c : r \in 0..(rows - 1), c \in 0..(rowlen - 1)}

YWrites == WriteAddrs(offset0, stride0, HEIGHT, WIDTH)

UVWrites == WriteAddrs(offset1, stride1, HEIGHT \div 2, WIDTH)

\* C20: in the GBM/EGL program every byte written by the CPU fill lies inside
\* the mapped range [0, offset1 + stride1*(HEIGHT/2)), for every stride >= WIDTH
\* the buffer manager may report, and no byte written for the Y plane is
\* overwritten by the UV-plane copy.
C20_FillInsideMappingNoOverlap ==
    prog = "gbm" /\ Called("memcpy") /\ stride0 >= WIDTH =>
        /\ YWrites \cup UVWrites \subseteq 0..(offset1 + stride1 * (HEIGHT \div 2) - 1)
        /\ YWrites \cap UVWrites = {}

\* the logged calls of one kind
LoggedOps(op) == {i \in 1..Len(vkLog) : vkLog[i].op = op}

\* C21: in the Vulkan scaler every setImageLayout call names as oldLayout the
\* layout the image has at that point and is one of the four handled
\* transitions, every buffer-to-image copy targets an image in
\* TRANSFER_DST_OPTIMAL, both dispatches run while all four images are in
\* GENERAL, and every image-to-buffer copy reads an image in TRANSFER_SRC_OPTIMAL.
C21_LayoutsMatchUse ==
    prog = "vulkan" =>
        /\ \A i \in LoggedOps("vkCmdPipelineBarrier") :
              /\ vkLog[i].oldLayout = vkLog[i].layouts[vkLog[i].image]
              /\ <<vkLog[i].oldLayout, vkLog[i].newLayout>> \in HandledTransitions
        /\ \A i \in LoggedOps("vkCmdCopyBufferToImage") :
              /\ vkLog[i].layouts[vkLog[i].image] = "TRANSFER_DST_OPTIMAL"
              /\ vkLog[i].oldLayout = "TRANSFER_DST_OPTIMAL"
        /\ \A i \in LoggedOps("vkCmdDispatch") :
              \A im \in Images : vkLog[i].layouts[im] = "GENERAL"
        /\ \A i \in LoggedOps("vkCmdCopyImageToBuffer") :
              /\ vkLog[i].layouts[vkLog[i].image] = "TRANSFER_SRC_OPTIMAL"
              /\ vkLog[i].oldLayout = "TRANSFER_SRC_OPTIMAL"

C21_Witness ==
    /\ prog = "vulkan" /\ pc = "exited" /\ exitStatus = "0"
    /\ Cardinality(LoggedOps("vkCmdPipelineBarrier")) = 8
    /\ Cardinality(LoggedOps("vkCmdCopyBufferToImage")) = 2
    /\ Cardinality(LoggedOps("vkCmdDispatch")) = 2
    /\ Cardinality(LoggedOps("vkCmdCopyImageToBuffer")) = 2

\* every call of A is followed by a completed vkQueueWaitIdle before any call of B
WaitBetween(A, B) ==
    \A i \in A, j \in B :
        \E w \in LoggedOps("vkQueueWaitIdle") : i < w /\ w < j

Uploads == LoggedOps("vkCmdCopyBufferToImage")

InputTransitions ==
    {i \in LoggedOps("vkCmdPipelineBarrier") : vkLog[i].oldLayout = "TRANSFER_DST_OPTIMAL"}

DispatchesOf(pipeline) == {i \in LoggedOps("vkCmdDispatch") : vkLog[i].image = pipeline}

OutputTransitions ==
    {i \in LoggedOps("vkCmdPipelineBarrier") : vkLog[i].newLayout = "TRANSFER_SRC_OPTIMAL"}

Readbacks == LoggedOps("vkCmdCopyImageToBuffer")

\* C22: in the Vulkan scaler each recorded command buffer is submitted and the
\* queue waited idle before the next one is recorded, so the GPU work completes
\* in the order upload, input transition, Y dispatch, UV dispatch, output
\* transition, readback copy; the host reads the output staging buffers only
\* after the readback copy has completed and writes the input staging buffers
\* only before the upload copy is submitted.
C22_SubmitWaitOrder ==
    prog = "vulkan" =>
        /\ \A b \in LoggedOps("vkBeginCommandBuffer") :
              \E sb \in LoggedOps("vkQueueSubmit"), w \in LoggedOps("vkQueueWaitIdle") :
                  /\ b < sb /\ sb < w
                  /\ \A b2 \in LoggedOps("vkBeginCommandBuffer") : b2 > b => b2 > w
        /\ WaitBetween(Uploads, InputTransitions)
        /\ WaitBetween(InputTransitions, DispatchesOf("pipeY"))
        /\ WaitBetween(DispatchesOf("pipeY"), DispatchesOf("pipeUV"))
        /\ WaitBetween(DispatchesOf("pipeUV"), OutputTransitions)
        /\ WaitBetween(OutputTransitions, Readbacks)
        /\ \A h \in LoggedOps("outf.write") :
              \E r \in Readbacks, w \in LoggedOps("vkQueueWaitIdle") :
                  vkLog[r].buffer = vkLog[h].buffer /\ r < w /\ w < h
        /\ \A m \in LoggedOps("memcpy"), sb \in LoggedOps("vkQueueSubmit") : m < sb

C22_Witness ==
    /\ prog = "vulkan" /\ pc = "exited" /\ exitStatus = "0"
    /\ Cardinality(LoggedOps("vkQueueWaitIdle")) = 7
    /\ Cardinality(LoggedOps("outf.write")) = 2
    /\ Cardinality(LoggedOps("memcpy")) = 2

\* one of the four sizes is odd
AnyOdd == inW % 2 # 0 \/ inH % 2 # 0 \/ outW % 2 # 0 \/ outH % 2 # 0

\* the input file cannot be opened or holds fewer than inW*inH*3/2 bytes
InputUnusable == ~fileExists \/ Len(file) < (inW * inH * 3) \div 2

\* the program has exited with status 1
ExitedOne == pc = "exited" /\ exitStatus = "1"

\* C23: the Vulkan scaler exits with status 1 before reading the input file or
\* creating any Vulkan object whenever one of inW, inH, outW, outH is odd, and
\* exits with status 1 before creating any Vulkan object whenever the input
\* file cannot be opened or holds fewer than inW*inH*3/2 bytes.
C23_EarlyExits ==
    /\ prog = "vulkan" /\ pc # "start" /\ AnyOdd
       => ExitedOne /\ vkLog = <<>>
    /\ prog = "vulkan" /\ pc \notin {"start", "read"} /\ InputUnusable
       => ExitedOne /\ LoggedOps("vkCreateInstance") = {}

\* NV12ToRGB has been called
Converted == prog = "cpu" /\ (pc = "write" \/ (pc = "exited" /\ exitStatus = "0"))

\* C24: for every positive width and height the CPU converter's main accepts,
\* NV12ToRGB reads only indices inside the width*height*3/2-byte input buffer
\* and writes only indices inside the width*height*3-byte output buffer.
C24_ConverterIndicesInBounds ==
    Converted /\ width > 0 /\ height > 0 =>
        /\ MaxReadIndex(width, height) < Len(nv12_data)
        /\ ~oobRead
        /\ Len(rgb_data) = width * height * 3

\* the number of logged calls of c
CountOf(c) == Cardinality({i \in 1..Len(calls) : calls[i] = c})

\* the render loop has been left
LoopEnded == prog = "gbm" /\ draws > 0 /\ running = 0

\* the events the loop is specified to end on
SpecifiedEndEvents == {"ClientMessage:WM_DELETE_WINDOW", "KeyPress:q", "KeyPress:Escape"}

\* C25: the redraw loop of the GBM/EGL program keeps redrawing until it ends,
\* the events that end it are a WM_DELETE_WINDOW client message and a key press
\* of 'q' or Esc, and after the loop the program runs its cleanup once and exits
\* with status 0.
C25_LoopEndEvents ==
    /\ prog = "gbm" /\ pc = "loop" =>
          /\ running = 1 /\ CountOf("glDrawArrays") = draws
          /\ \A e \in SpecifiedEndEvents : ~Called(e)
    /\ LoopEnded => \E e \in SpecifiedEndEvents : Called(e)
    /\ LoopEnded /\ pc = "exited" =>
          /\ exitStatus = "0"
          /\ Cardinality({i \in 1..Len(stdout) : stdout[i] = "Done."}) = 1

\* the viewer has left its event wait
WaitLeft == prog = "viewer" /\ draws > 0 /\ pc \in {"cleanup", "exited"}

\* C26: the GLES3 viewer draws and swaps the frame exactly once, then blocks on
\* X events; it leaves the wait only on a KeyPress event, every other event
\* leaves it waiting, and after the KeyPress it releases its textures, program,
\* buffers, EGL objects and window once each and exits with status 0.
C26_ViewerDrawOnceWaitKey ==
    /\ prog = "viewer" =>
          /\ draws <= 1
          /\ CountOf("glDrawArrays") = draws /\ CountOf("eglSwapBuffers") = draws
          /\ EventsSeen # {} => draws = 1
    /\ prog = "viewer" /\ pc = "wait" =>
          \A i \in EventsSeen : calls[i] \notin KeyPressEvents
    /\ WaitLeft =>
          \E k \in EventsSeen :
              /\ calls[k] \in KeyPressEvents
              /\ \A i \in EventsSeen : i # k => i < k /\ calls[i] \notin KeyPressEvents
    /\ WaitLeft /\ pc = "exited" =>
          /\ exitStatus = "0"
          /\ \A i \in 1..Len(ViewerReleases) : CountOf(ViewerReleases[i]) = 1
          /\ \A i \in 1..Len(ViewerReleases) :
                \A k \in EventsSeen, r \in Pos(ViewerReleases[i]) : k < r

C26_Witness ==
    /\ WaitLeft /\ pc = "exited"
    /\ Cardinality(EventsSeen) = 3
    /\ CountOf("XCloseDisplay") = 1

\* pixel p (0-based, row-major) of the converted frame: <<R, G, B>>
OutPixel(p) == <<rgb_data[3 * p + 1], rgb_data[3 * p + 2], rgb_data[3 * p + 3]>>

\* C27: in NV12ToRGB every output component lies in 0..255; for neutral chroma
\* (U = V = 128) every pixel has R = G = B, non-decreasing in Y, 0 for every
\* Y <= 16 and 255 for every Y >= 235; all pixels of one 2x2 block use the U,V
\* pair at uv_plane[(j/2)*width + 2*(i/2)] and the byte after it.
C27_ConverterRangeAndBlocks ==
    /\ prog = "px" /\ pc = "done" =>
          /\ \A c \in 1..3 : rgb_data[c] \in 0..255
          /\ texel[2] = 128 /\ texel[3] = 128 =>
                /\ rgb_data[1] = rgb_data[2] /\ rgb_data[2] = rgb_data[3]
                /\ texel[1] <= 16 => rgb_data[1] = 0
                /\ texel[1] >= 235 => rgb_data[1] = 255
                /\ texel[1] > 0 => rgb_data[1] >= PixelRGB(texel[1] - 1, 128, 128)[1]
    /\ Converted /\ EvenAtLeast2(width) /\ EvenAtLeast2(height) =>
          \A i \in 0..(width - 1), j \in 0..(height - 1) :
              LET uv == width * height + (j \div 2) * width + 2 * (i \div 2)
              IN  OutPixel(j * width + i) =
                      PixelRGB(At(nv12_data, j * width + i), At(nv12_data, uv),
                               At(nv12_data, uv + 1))

C27_Witness ==
    prog = "px" /\ pc = "done" /\ texel = <<235, 128, 128>> /\ rgb_data = <<255, 255, 255>>

\* |a - b|
AbsDiff(a, b) == IF a >= b THEN a - b ELSE b - a

\* C28: NV12ToRGB and the fragment shaders implement the same conversion: for
\* every 8-bit (Y, U, V) the 8-bit RGB of the integer formula and the 8-bit RGB
\* of the shader formula differ by at most 1 in each channel.
C28_CpuMatchesShader ==
    prog = "fs" /\ pc = "done" =>
        \A c \in 1..3 :
            AbsDiff(fragColor[c], PixelRGB(texel[1], texel[2], texel[3])[c]) <= 1

\* glEGLImageTargetTexture2DOES left a GL error
BindFailed == "glEGLImageTargetTexture2DOES failed" \in Range(stderr)

\* C29: in the GBM/EGL program the EGLImage is destroyed at most once per run
\* and is never bound or sampled after being destroyed: when the bind fails
\* the image is destroyed and img is reset so the cleanup does not destroy it
\* again, and on the imported path the image stays alive for every draw call
\* and is destroyed only in the cleanup.
C29_ImageDestroyedOnce ==
    prog = "gbm" =>
        /\ CountOf("eglDestroyImage") <= 1
        /\ AllBefore("glEGLImageTargetTexture2DOES", "eglDestroyImage")
        /\ BindFailed => imgState = "destroyed" /\ img = "NO_IMAGE" /\ imported = 0
        /\ imported = 1 /\ pc # "exited" => imgState = "live" /\ ~Called("eglDestroyImage")
        /\ imgState = "destroyed" /\ pc # "exited" => imported = 0

\* a grid of g groups of LocalSize covers n texels with no unused group
Covers(g, n) == LocalSize * g >= n /\ n > LocalSize * (g - 1)

\* C30: in the Vulkan scaler the dispatched grid of 16x16 workgroups covers
\* every output pixel and has no fully unused row or column of groups:
\* 16*gx >= outW > 16*(gx-1) and 16*gy >= outH > 16*(gy-1) for the Y plane,
\* and the same with outW/2 and outH/2 for the UV plane, for every even outW
\* and outH >= 2.
C30_WorkgroupGridCovers ==
    prog = "vulkan" /\ pc # "start" /\ EvenAtLeast2(outW) /\ EvenAtLeast2(outH) =>
        /\ \A k \in DispatchesOf("pipeY") :
               Covers(vkLog[k].gx, outW) /\ Covers(vkLog[k].gy, outH)
        /\ \A k \in DispatchesOf("pipeUV") :
               Covers(vkLog[k].gx, outW \div 2) /\ Covers(vkLog[k].gy, outH \div 2)

\* C30 witness: both dispatches were recorded for a 34x34 output, three groups
\* per axis for the Y plane and two for the UV plane
C30_Witness ==
    /\ prog = "vulkan" /\ pc # "start"
    /\ outW = 2 * LocalSize + 2 /\ outH = 2 * LocalSize + 2
    /\ \E k \in DispatchesOf("pipeY") : vkLog[k].gx = 3 /\ vkLog[k].gy = 3
    /\ \E k \in DispatchesOf("pipeUV") : vkLog[k].gx = 2 /\ vkLog[k].gy = 2
====
